---- MODULE Spec2Model ----
(***************************************************************************)
(* Model of the task execution engine of bot.py:                           *)
(*   - AccountManager.get_client (session acquisition, proxy fallback),    *)
(*   - TaskManager.start_task / stop_task / delete_task,                   *)
(*   - TaskManager._execute_task and the three execution modes,            *)
(*   - the stop-aware send wrapper, the retry loop and the completion       *)
(*     report.                                                             *)
(* One asyncio event loop runs everything: an action of this module is the *)
(* code a coroutine executes between two suspension points (await of a     *)
(* transport call, of a sleep, of another task).  Calls to the document    *)
(* store are synchronous (pymongo) and never suspend.                      *)
(***************************************************************************)
EXTENDS Integers, Sequences, FiniteSets, TLC

\* ------------------------------------------------------------------ bounds
NumAccounts == 2
NumCallers == 2
NumProxies == 1
NumTargets == 2
MaxRuns == 2
DailyLimit == 1
DefaultLimitTargets == 31

Accounts == 1..NumAccounts
Callers == 1..NumCallers
Proxies == 1..NumProxies
Senders == 1..NumAccounts

\* Proxy auto-delete threshold (bot.py:1743, 1765)
PROXY_FAIL_LIMIT == 3

VARIABLES
    \* ---- AccountManager
    clients,        \* clients[a]: session cached for account a, 0 when none
    client_locks,   \* client_locks[a]: caller holding the account's lock, 0 when free
    nSessions,      \* nSessions[a]: sessions created and connected for a so far
    gcPc,           \* gcPc[c]: position of caller c inside get_client
    gcAcct,         \* gcAcct[c]: account caller c asked for
    gcRet,          \* gcRet[c]: session the last call of c returned (0: none/raised)
    gcProxy,        \* gcProxy[c]: proxy_obj of the call (0: none)
    acctProxy,      \* acctProxy[a]: the account's proxy_id (0: None)
    acctAuth,       \* acctAuth[a]: FALSE once the account was marked inactive
    proxyAlive,     \* proxyAlive[p]: the proxy document exists and is_active
    proxyFail       \* proxyFail[p]: fail_count of the proxy

clientVars == <<clients, client_locks, nSessions, gcPc, gcAcct, gcRet, gcProxy,
                acctProxy, acctAuth, proxyAlive, proxyFail>>

VARIABLES
    \* ---- document store
    task_exists,    \* the task document exists
    cfg,            \* the task's configuration (mode flags, thread_count, retry_count, ...)
    status,         \* task.status
    sent_count,     \* task.sent_count
    failed_count,   \* task.failed_count
    tgt,            \* tgt[t]: the target document (exists, is_sent, is_valid, failed_accounts)
                    \*   and, as history, blocked: the accounts whose send to it
                    \*   ended with a privacy error
    has_logs,       \* some MessageLog of the task exists
    acct,           \* acct[a]: the account document (status, messages_sent_today, daily_limit)
                    \*   and stale: last_used is set and its date is before today
    \* ---- TaskManager
    running_tasks,  \* run registered for the task id, 0 when the id is absent
    stop_flags,     \* "none" (absent), "false" or "true"
    report_sent,    \* task id in self.report_sent
    report_retry_count,
    check_cache,    \* _account_check_cache entry of the task: "none", "false", "true"
    run,            \* run[r]: dispatcher coroutine r (_execute_task) and its stop event
    snd,            \* snd[r][s]: logical sender s of run r (a batch or an account loop)
    stopPc,         \* position of the stop_task call in progress
    stopRun,        \* run the stop_task call in progress waits for
    refused,        \* last API call that raised: "none", "start", "stop" or "delete"
    \* ---- history
    attempted,      \* attempted[r]: targets a transport attempt of run r was started for
    \* ---- status oracle
    probe           \* the account a status check is made for, what its query of
                    \*   the status bot meets (out), the account's entry in
                    \*   account_status_cache, and as history the results of
                    \*   check_account_real_status (real) and of the sweep (sweep)

taskVars == <<task_exists, cfg, status, sent_count, failed_count, tgt, has_logs, acct,
              running_tasks, stop_flags, report_sent, report_retry_count, check_cache,
              run, snd,
              stopPc, stopRun, refused, attempted, probe>>

taskVarsButRefused ==
    <<task_exists, cfg, status, sent_count, failed_count, tgt, has_logs, acct,
      running_tasks, stop_flags, report_sent, report_retry_count, check_cache,
      run, snd, stopPc, stopRun, attempted, probe>>

vars == <<clients, client_locks, nSessions, gcPc, gcAcct, gcRet, gcProxy,
          acctProxy, acctAuth, proxyAlive, proxyFail,
          task_exists, cfg, status, sent_count, failed_count, tgt, has_logs, acct,
          running_tasks, stop_flags, report_sent, report_retry_count, check_cache,
              run, snd,
          stopPc, stopRun, refused, attempted, probe>>

\* ------------------------------------------------- AccountManager.get_client

\* get_next_available_proxy: an active proxy of the pool, 0 when none.  The
\* pool is ordered by success_count; with the pool sizes checked here the
\* lowest-numbered active proxy stands for the least used one.
get_next_available_proxy ==
    IF \E p \in Proxies : proxyAlive[p]
    THEN CHOOSE p \in Proxies : proxyAlive[p] /\ \A q \in Proxies : proxyAlive[q] => p <= q
    ELSE 0

\* The cached-and-connected test of lines 1645 and 1655.
HasCachedClient(a) == clients[a] # 0

ClientInit ==
    /\ clients = [a \in Accounts |-> 0]
    /\ client_locks = [a \in Accounts |-> 0]
    /\ nSessions = [a \in Accounts |-> 0]
    /\ gcPc = [c \in Callers |-> "idle"]
    /\ gcAcct = [c \in Callers |-> 1]
    /\ gcRet = [c \in Callers |-> 0]
    /\ gcProxy = [c \in Callers |-> 0]
    /\ acctProxy = [a \in Accounts |-> 0]
    /\ acctAuth = [a \in Accounts |-> TRUE]
    /\ proxyAlive = [p \in Proxies |-> TRUE]
    /\ proxyFail = [p \in Proxies |-> 0]

\* Entry of get_client: the lock-free fast path, else go for the lock.
GcCall(c, a) ==
    /\ gcPc[c] \in {"idle", "returned", "raised"}
    /\ gcAcct' = [gcAcct EXCEPT ![c] = a]
    /\ gcProxy' = [gcProxy EXCEPT ![c] = 0]
    /\ IF HasCachedClient(a)
       THEN /\ gcPc' = [gcPc EXCEPT ![c] = "returned"]
            /\ gcRet' = [gcRet EXCEPT ![c] = clients[a]]
       ELSE /\ gcPc' = [gcPc EXCEPT ![c] = "acquire"]
            /\ gcRet' = [gcRet EXCEPT ![c] = 0]
    /\ UNCHANGED <<clients, client_locks, nSessions, acctProxy, acctAuth,
                   proxyAlive, proxyFail>>

\* async with self.client_locks[account_id_str]: take the lock when it is free.
GcAcquire(c) ==
    /\ gcPc[c] = "acquire"
    /\ client_locks[gcAcct[c]] = 0
    /\ client_locks' = [client_locks EXCEPT ![gcAcct[c]] = c]
    /\ gcPc' = [gcPc EXCEPT ![c] = "locked"]
    /\ UNCHANGED <<clients, nSessions, gcAcct, gcRet, gcProxy, acctProxy, acctAuth,
                   proxyAlive, proxyFail>>

\* The body of the with-block (the double check and the account lookup), the
\* release of the lock at the end of the block (line 1658), and the code that
\* follows it up to the first await: proxy selection and the start of the
\* connection attempt.
GcLockedSection(c) ==
    LET a == gcAcct[c]
        assigned == IF acctProxy[a] # 0 /\ proxyAlive[acctProxy[a]] THEN acctProxy[a] ELSE 0
        picked == IF assigned # 0 THEN assigned ELSE get_next_available_proxy
    IN
    /\ gcPc[c] = "locked"
    /\ client_locks' = [client_locks EXCEPT ![a] = 0]
    /\ IF HasCachedClient(a)
       THEN /\ gcPc' = [gcPc EXCEPT ![c] = "returned"]
            /\ gcRet' = [gcRet EXCEPT ![c] = clients[a]]
            /\ UNCHANGED <<gcProxy, acctProxy>>
       ELSE /\ gcPc' = [gcPc EXCEPT ![c] = IF picked # 0 THEN "proxy_connect" ELSE "local_connect"]
            /\ gcProxy' = [gcProxy EXCEPT ![c] = picked]
            /\ acctProxy' = IF assigned = 0 /\ picked # 0
                            THEN [acctProxy EXCEPT ![a] = picked]
                            ELSE acctProxy
            /\ UNCHANGED gcRet
    /\ UNCHANGED <<clients, nSessions, gcAcct, acctAuth, proxyAlive, proxyFail>>

\* GcProxyResult with the update_many of lines 1745-1748 and 1767-1770 left
\* out: at the third failure the proxy is deleted, the accounts keep their
\* proxy_id.
GcProxyResultKeepsAssignments(c, outcome) ==
    LET a == gcAcct[c]
        p == gcProxy[c]
        fails == proxyFail[p] + 1
    IN
    /\ gcPc[c] = "proxy_connect"
    /\ CASE outcome = "ok" ->
              /\ nSessions' = [nSessions EXCEPT ![a] = @ + 1]
              /\ clients' = [clients EXCEPT ![a] = nSessions[a] + 1]
              /\ gcRet' = [gcRet EXCEPT ![c] = nSessions[a] + 1]
              /\ gcPc' = [gcPc EXCEPT ![c] = "returned"]
              /\ UNCHANGED <<acctProxy, proxyAlive, proxyFail>>
         [] outcome = "unauth" ->
              /\ gcPc' = [gcPc EXCEPT ![c] = "local_connect"]
              /\ UNCHANGED <<clients, nSessions, gcRet, acctProxy, proxyAlive, proxyFail>>
         [] OTHER ->
              /\ gcPc' = [gcPc EXCEPT ![c] = "local_connect"]
              /\ IF proxyAlive[p]
                 THEN /\ proxyFail' = [proxyFail EXCEPT ![p] = fails]
                      /\ proxyAlive' = [proxyAlive EXCEPT ![p] = fails < PROXY_FAIL_LIMIT]
                      /\ UNCHANGED acctProxy
                 ELSE UNCHANGED <<proxyFail, acctProxy, proxyAlive>>
              /\ UNCHANGED <<clients, nSessions, gcRet>>
    /\ UNCHANGED <<client_locks, gcAcct, gcProxy, acctAuth>>

\* Outcome of `await asyncio.wait_for(client.connect(), 30)` through the proxy.
\*   "ok"     connected and authorized: the client is cached and returned;
\*   "unauth" connected, not authorized: disconnect, fall back to local;
\*   "fail"   timeout or connection error: count the failure, delete the proxy
\*            at 3 failures, fall back to local.
GcProxyResult(c, outcome) ==
    LET a == gcAcct[c]
        p == gcProxy[c]
        fails == proxyFail[p] + 1
    IN
    /\ gcPc[c] = "proxy_connect"
    /\ CASE outcome = "ok" ->
              /\ nSessions' = [nSessions EXCEPT ![a] = @ + 1]
              /\ clients' = [clients EXCEPT ![a] = nSessions[a] + 1]
              /\ gcRet' = [gcRet EXCEPT ![c] = nSessions[a] + 1]
              /\ gcPc' = [gcPc EXCEPT ![c] = "returned"]
              /\ UNCHANGED <<acctProxy, proxyAlive, proxyFail>>
         [] outcome = "unauth" ->
              /\ gcPc' = [gcPc EXCEPT ![c] = "local_connect"]
              /\ UNCHANGED <<clients, nSessions, gcRet, acctProxy, proxyAlive, proxyFail>>
         [] OTHER ->
              /\ gcPc' = [gcPc EXCEPT ![c] = "local_connect"]
              /\ IF proxyAlive[p]
                 THEN /\ proxyFail' = [proxyFail EXCEPT ![p] = fails]
                      /\ IF fails >= PROXY_FAIL_LIMIT
                         THEN /\ acctProxy' = [x \in Accounts |->
                                                 IF acctProxy[x] = p THEN 0 ELSE acctProxy[x]]
                              /\ proxyAlive' = [proxyAlive EXCEPT ![p] = FALSE]
                         ELSE UNCHANGED <<acctProxy, proxyAlive>>
                 ELSE UNCHANGED <<proxyFail, acctProxy, proxyAlive>>
              /\ UNCHANGED <<clients, nSessions, gcRet>>
    /\ UNCHANGED <<client_locks, gcAcct, gcProxy, acctAuth>>

\* Outcome of the direct connection (lines 1779-1804).
GcLocalResult(c, outcome) ==
    LET a == gcAcct[c] IN
    /\ gcPc[c] = "local_connect"
    /\ IF outcome = "ok"
       THEN /\ nSessions' = [nSessions EXCEPT ![a] = @ + 1]
            /\ clients' = [clients EXCEPT ![a] = nSessions[a] + 1]
            /\ gcRet' = [gcRet EXCEPT ![c] = nSessions[a] + 1]
            /\ gcPc' = [gcPc EXCEPT ![c] = "returned"]
            /\ UNCHANGED acctAuth
       ELSE /\ acctAuth' = [acctAuth EXCEPT ![a] = FALSE]
            /\ gcPc' = [gcPc EXCEPT ![c] = "raised"]
            /\ UNCHANGED <<clients, nSessions, gcRet>>
    /\ UNCHANGED <<client_locks, gcAcct, gcProxy, acctProxy, proxyAlive, proxyFail>>

ClientNext ==
    \/ \E c \in Callers, a \in Accounts : GcCall(c, a)
    \/ \E c \in Callers : GcAcquire(c)
    \/ \E c \in Callers : GcLockedSection(c)
    \/ \E c \in Callers, o \in {"ok", "unauth", "fail"} : GcProxyResult(c, o)
    \/ \E c \in Callers, o \in {"ok", "unauth"} : GcLocalResult(c, o)

\* ------------------------------------------------------- TaskManager: data

\* Config.ACCOUNT_CHECK_LOOP_INTERVAL, Config.CONSECUTIVE_FAILURES_THRESHOLD,
\* Config.MAX_REPORT_RETRY_ATTEMPTS and DEFAULT_CONSECUTIVE_FAILURE_LIMIT.
ACCOUNT_CHECK_LOOP_INTERVAL == 10
CONSECUTIVE_FAILURES_THRESHOLD == 50
MAX_REPORT_RETRY_ATTEMPTS == 3
DEFAULT_CONSECUTIVE_FAILURE_LIMIT == 30

\* Task configurations the runs are checked with.  mode stands for the pair
\* (force_private_mode, repeat_send) as _execute_task reads it; limit is
\* ignore_bidirectional_limit (0: not set).
Configs ==
    { [mode |-> "normal", thread_count |-> 2, retry_count |-> 1,
       flood_wait_strategy |-> "switch_account", limit |-> 0],
      [mode |-> "normal", thread_count |-> 1, retry_count |-> 0,
       flood_wait_strategy |-> "stop_task", limit |-> 0],
      [mode |-> "repeat", thread_count |-> 2, retry_count |-> 0,
       flood_wait_strategy |-> "continue_wait", limit |-> 0],
      [mode |-> "force", thread_count |-> 2, retry_count |-> 0,
       flood_wait_strategy |-> "switch_account", limit |-> 1],
      [mode |-> "force", thread_count |-> 1, retry_count |-> 0,
       flood_wait_strategy |-> "switch_account", limit |-> 1] }

\* A sender that was never created, and one that has returned.  fw records
\* the last answer the sender got from check_account_real_status, in the
\* FloodWait handler or at the consecutive-failure limit: <<account,
\* position of the target, result>>.  w is the number of whole seconds the
\* sender has been in its present sleep.
NoSender ==
    [pc |-> "none", tgts |-> <<>>, i |-> 0, acc |-> 0, ai |-> 0, att |-> 0,
     k |-> 0, cf |-> 0, fw |-> <<>>, w |-> 0]
DoneSender == [NoSender EXCEPT !.pc = "done"]

\* No status check: nothing is asked, account_status_cache is empty.
NoProbe ==
    [acc |-> 0, out |-> [kind |-> "none", text |-> ""], cache |-> "none",
     real |-> "none", sweep |-> "none"]

\* A dispatcher coroutine that start_task has not created yet.
\* wrote and fields are the status and the keys of the last $set the
\* dispatcher made on the task document; error is the message of the
\* configuration error it raised (the account counts per status).
NoRun ==
    [pc |-> "unborn", stop_event |-> FALSE, targets |-> <<>>, failed0 |-> <<>>,
     accounts |-> <<>>, batch |-> 0, reports |-> 0, wrote |-> "none", exc |-> FALSE,
     fields |-> {}, error |-> {}]

\* AccountStatus (lines 188-193) and the status_stats of lines 2282-2288: the
\* pairs <<status, count>> of the statuses some account has.
AccountStatuses == {"active", "banned", "limited", "inactive"}

status_stats ==
    {<<st, Cardinality({a \in Accounts : acct[a].status = st})>> :
        st \in {x \in AccountStatuses : \E a \in Accounts : acct[a].status = x}}

RECURSIVE SortedSeq(_)
\* The documents a find() returns, in insertion order.
SortedSeq(S) ==
    IF S = {} THEN <<>>
    ELSE LET m == CHOOSE x \in S : \A y \in S : x <= y
         IN <<m>> \o SortedSeq(S \ {m})

Min(a, b) == IF a <= b THEN a ELSE b
Max(a, b) == IF a >= b THEN a ELSE b

\* task.total_targets: the number of targets loaded for the task.
total_targets == Cardinality(DOMAIN tgt)

\* targets_col.find({task_id, is_sent: False, is_valid: True}) (lines 2238-2243)
PendingTargets ==
    SortedSeq({t \in DOMAIN tgt : tgt[t].exists /\ ~tgt[t].is_sent /\ tgt[t].is_valid})

\* AccountManager.get_active_accounts
get_active_accounts == SortedSeq({a \in Accounts : acct[a].status = "active"})

\* _get_available_targets_for_account over the run's snapshot: the targets no
\* account failed on, then those other accounts failed on.  is_sent and
\* failed_accounts are the values the snapshot was loaded with.
RECURSIVE FilterSeq(_, _)
FilterSeq(sq, S) ==
    IF sq = <<>> THEN <<>>
    ELSE (IF Head(sq) \in S THEN <<Head(sq)>> ELSE <<>>) \o FilterSeq(Tail(sq), S)

_get_available_targets_for_account(rr, a) ==
    LET never_tried == {t \in DOMAIN rr.failed0 : rr.failed0[t] = {}}
        failed_by_others == {t \in DOMAIN rr.failed0 :
                                rr.failed0[t] # {} /\ a \notin rr.failed0[t]}
    IN FilterSeq(rr.targets, never_tried) \o FilterSeq(rr.targets, failed_by_others)

\* The consecutive-failure limit of force mode (line 2671).
ConsecutiveLimit ==
    IF cfg.limit > 0 THEN cfg.limit ELSE DEFAULT_CONSECUTIVE_FAILURE_LIMIT

\* Senders of a normal-mode run: batches[:thread_count] of lines 2500-2520.
NormalSenders(rr) ==
    LET n == Len(rr.targets)
        thread_count == Min(cfg.thread_count, Len(rr.accounts))
        batch_size == Max(1, n \div thread_count)
    IN [s \in Senders |->
          IF s <= thread_count /\ (s - 1) * batch_size < n
          THEN [NoSender EXCEPT !.pc = "start",
                                !.tgts = SubSeq(rr.targets, (s - 1) * batch_size + 1,
                                                Min(s * batch_size, n))]
          ELSE NoSender]

\* Senders of account batch b (1-based) of a repeat or force run: one per
\* account of accounts[(b-1)*thread_count : b*thread_count].
AccountBatchSenders(rr, b) ==
    LET n == Len(rr.accounts)
        lo == (b - 1) * cfg.thread_count
    IN [s \in Senders |->
          IF s <= cfg.thread_count /\ lo + s <= n
          THEN [NoSender EXCEPT
                  !.pc = "start",
                  !.acc = rr.accounts[lo + s],
                  !.tgts = IF cfg.mode = "force"
                           THEN _get_available_targets_for_account(rr, rr.accounts[lo + s])
                           ELSE rr.targets]
          ELSE NoSender]

NumAccountBatches(rr) ==
    (Len(rr.accounts) + cfg.thread_count - 1) \div cfg.thread_count

\* The state after construction of the TaskManager (lines 1930-1944) with one
\* pending task of a configuration of cs, ntargets targets loaded for it, and
\* room for nruns dispatcher coroutines.
TaskInitProbe(cs, nruns, ntargets, sts, sents, stales, lim, probes) ==
    /\ task_exists = TRUE
    /\ cfg \in cs
    /\ status = "pending"
    /\ sent_count = 0
    /\ failed_count = 0
    /\ tgt = [t \in 1..ntargets |->
                [exists |-> TRUE, is_sent |-> FALSE, is_valid |-> TRUE,
                 failed_accounts |-> {}, blocked |-> {}]]
    /\ has_logs = FALSE
    /\ acct \in [Accounts -> [status : sts, sent_today : sents, daily_limit : {lim},
                               stale : stales]]
    /\ running_tasks = 0
    /\ stop_flags = "none"
    /\ report_sent = FALSE
    /\ report_retry_count = 0
    /\ check_cache = "none"
    /\ run = [r \in 1..nruns |-> NoRun]
    /\ snd = [r \in 1..nruns |-> [s \in Senders |-> NoSender]]
    /\ stopPc = "idle"
    /\ stopRun = 0
    /\ refused = "none"
    /\ attempted = [r \in 1..nruns |-> {}]
    /\ probe \in probes

\* The same with no status check under way.
TaskInitStale(cs, nruns, ntargets, sts, sents, stales, lim) ==
    TaskInitProbe(cs, nruns, ntargets, sts, sents, stales, lim, {NoProbe})

\* The same with every account last used today or never.
TaskInitSent(cs, nruns, ntargets, sts, sents, lim) ==
    TaskInitStale(cs, nruns, ntargets, sts, sents, {FALSE}, lim)

\* The same with no message sent today by any account.
TaskInitAccounts(cs, nruns, ntargets, sts, lim) ==
    TaskInitSent(cs, nruns, ntargets, sts, {0}, lim)

\* The same with every account active.
TaskInitWith(cs, nruns, ntargets) ==
    TaskInitAccounts(cs, nruns, ntargets, {"active"}, DailyLimit)

\* ---------------------------------------------------- senders: loop heads
\* The code a sender runs without suspending is computed by the operators
\* below.  They work on a context c = [sd, fc, st, cache, rs]: the sender's
\* record, the failed_count increments made so far in the step, the task
\* status and the account-check cache as the step has left them so far, and
\* the accounts whose messages_sent_today the step has reset to 0.

Ctx(sd, fc, st, cache) == [sd |-> sd, fc |-> fc, st |-> st, cache |-> cache, rs |-> {}]

\* The daily reset that follows the limit test in each mode's loop (lines
\* 2583-2589, 2426-2432, 2761-2767): an account that passed the limit test
\* and was last used before today gets messages_sent_today = 0.
DayReset(c, a) == IF acct[a].stale THEN [c EXCEPT !.rs = @ \cup {a}] ELSE c

Finished(c) == [c EXCEPT !.sd = [DoneSender EXCEPT !.fw = c.sd.fw]]

\* First iteration of _sleep_with_stop_check (lines 2163-2175): the sleep
\* returns at once when the event is set or the stored status is stopped.
SleepInterruptedAtOnce(r, c) ==
    run[r].stop_event \/ (task_exists /\ c.st = "stopped")

\* check_and_stop_if_no_accounts up to its first suspension: "true"/"false"
\* when it returns without suspending (fresh cache entry, or some account is
\* active), "await" when it has written FAILED and awaits the admin notice.
CheckResult(c, fresh) ==
    IF c.cache # "none" /\ fresh THEN c.cache
    ELSE IF \E a \in Accounts : acct[a].status = "active" THEN "false"
    ELSE "await"

CheckCtx(c, fresh) ==
    LET res == CheckResult(c, fresh) IN
    IF c.cache # "none" /\ fresh THEN c
    ELSE IF res = "false" THEN [c EXCEPT !.cache = "false"]
    ELSE [c EXCEPT !.st = IF task_exists THEN "failed" ELSE c.st,
                   !.sd.pc = "check_notify"]

RECURSIVE NormalFor(_, _, _), NormalWhile(_, _, _)
\* Head of the for-loop of _process_batch_normal_mode (lines 2537-2567) for
\* the target at position c.sd.i.
NormalFor(r, c, fresh) ==
    IF c.sd.i > Len(c.sd.tgts) THEN Finished(c)
    ELSE IF \/ run[r].stop_event
            \/ stop_flags = "true"
            \/ (task_exists /\ c.st # "running") THEN Finished(c)
    ELSE IF c.sd.i % ACCOUNT_CHECK_LOOP_INTERVAL = 0
    THEN LET res == CheckResult(c, fresh)
             d == CheckCtx(c, fresh)
         IN IF res = "true" THEN Finished(d)
            ELSE IF res = "await" THEN d
            ELSE NormalWhile(r, [d EXCEPT !.sd.att = 0], fresh)
    ELSE NormalWhile(r, [c EXCEPT !.sd.att = 0], fresh)

\* Head of the while-loop (lines 2570-2597) and, when every account was
\* tried, the failure bookkeeping of lines 2645-2664.
NormalWhile(r, c, fresh) ==
    LET pool == run[r].accounts
        a == pool[(c.sd.ai % Len(pool)) + 1]
        next == [c EXCEPT !.sd.ai = (@ + 1) % Len(pool), !.sd.att = @ + 1]
        reset == DayReset(c, a)
        failed == [c EXCEPT !.sd.cf = @ + 1,
                            !.fc = IF task_exists THEN @ + 1 ELSE @]
        after == IF run[r].stop_event THEN Finished(failed)
                 ELSE NormalFor(r, [failed EXCEPT !.sd.i = @ + 1], fresh)
    IN IF c.sd.att >= Len(pool)
       THEN IF failed.sd.cf >= CONSECUTIVE_FAILURES_THRESHOLD
            THEN LET res == CheckResult(failed, fresh)
                     d == CheckCtx(failed, fresh)
                 IN IF res = "true" THEN Finished(d)
                    ELSE IF res = "await" THEN d
                    ELSE IF run[r].stop_event THEN Finished(d)
                    ELSE NormalFor(r, [d EXCEPT !.sd.i = @ + 1], fresh)
            ELSE after
       ELSE IF acct[a].sent_today >= acct[a].daily_limit THEN NormalWhile(r, next, fresh)
       ELSE IF run[r].stop_event
       THEN NormalWhile(r, [reset EXCEPT !.sd.ai = (@ + 1) % Len(pool), !.sd.att = @ + 1],
                        fresh)
       ELSE [reset EXCEPT !.sd.pc = "sending", !.sd.acc = a, !.sd.k = 0]

\* RepeatFor with the daily-limit test of lines 2420-2424 left out.
RepeatForNoLimit(r, c) ==
    IF c.sd.i > Len(c.sd.tgts) THEN Finished(c)
    ELSE IF run[r].stop_event \/ stop_flags = "true" THEN Finished(c)
    ELSE [c EXCEPT !.sd.pc = "sending", !.sd.k = 0]

\* Head of the loop of send_to_all_targets (lines 2408-2436).
RepeatFor(r, c) ==
    IF c.sd.i > Len(c.sd.tgts) THEN Finished(c)
    ELSE IF run[r].stop_event \/ stop_flags = "true" THEN Finished(c)
    ELSE IF acct[c.sd.acc].sent_today >= acct[c.sd.acc].daily_limit THEN Finished(c)
    ELSE [DayReset(c, c.sd.acc) EXCEPT !.sd.pc = "sending", !.sd.k = 0]

\* Head of the loop of _process_account_force_mode (lines 2747-2771).
ForceFor(r, c) ==
    IF c.sd.i > Len(c.sd.tgts) THEN Finished(c)
    ELSE IF run[r].stop_event THEN Finished(c)
    ELSE IF acct[c.sd.acc].sent_today >= acct[c.sd.acc].daily_limit THEN Finished(c)
    ELSE [DayReset(c, c.sd.acc) EXCEPT !.sd.pc = "sending", !.sd.k = 0]

\* The loop head of the task's mode.
LoopHead(r, c, fresh) ==
    IF cfg.mode = "normal" THEN NormalFor(r, c, fresh)
    ELSE IF cfg.mode = "repeat" THEN RepeatFor(r, c)
    ELSE ForceFor(r, c)

\* The message interval: _sleep_with_stop_check starts; the sender suspends
\* in it unless it returns at once, and then the loop goes on as after an
\* interrupted sleep.
AfterSleep(r, c, interrupted, fresh) ==
    LET nxt == [c EXCEPT !.sd.i = @ + 1] IN
    IF cfg.mode = "normal" THEN NormalFor(r, nxt, fresh)
    ELSE IF interrupted THEN Finished(c)
    ELSE LoopHead(r, nxt, fresh)

StartInterval(r, c, fresh) ==
    IF SleepInterruptedAtOnce(r, c) THEN AfterSleep(r, c, TRUE, fresh)
    ELSE [c EXCEPT !.sd.pc = "sleep"]

\* What follows a failed transport attempt: the retry loop of _send_message
\* (lines 3647-3658) sleeps retry_interval and sends again while attempts are
\* left; after the last one the wrapper returns False to the mode's loop.
AttemptFailed(r, c, fresh) ==
    IF c.sd.k < cfg.retry_count
    THEN [c EXCEPT !.sd.pc = "retry_sleep", !.sd.k = @ + 1]
    ELSE IF cfg.mode = "normal"
    THEN NormalWhile(r, [c EXCEPT !.sd.ai = (@ + 1) % Len(run[r].accounts),
                                  !.sd.att = @ + 1], fresh)
    ELSE IF cfg.mode = "repeat"
    THEN StartInterval(r, [c EXCEPT !.fc = IF task_exists THEN @ + 1 ELSE @], fresh)
    ELSE LET d == [c EXCEPT !.sd.cf = @ + 1,
                            !.fc = IF task_exists THEN @ + 1 ELSE @]
         IN IF d.sd.cf >= ConsecutiveLimit
            THEN [d EXCEPT !.sd.pc = "oracle_force"]
            ELSE StartInterval(r, d, fresh)

\* The target document after the wrapper returned False: force mode records
\* the account in failed_accounts (lines 2818-2829).
FailedTgt(tg, t, a, gaveUp) ==
    IF cfg.mode = "force" /\ gaveUp /\ tg[t].exists
    THEN [tg EXCEPT ![t].failed_accounts = @ \cup {a}]
    ELSE tg

\* The account documents after the wrapper returned False: repeat mode sets
\* last_used after every send, failed ones included (lines 2457-2461).
UsedAcct(ac, a, gaveUp) ==
    IF cfg.mode = "repeat" /\ gaveUp THEN [ac EXCEPT ![a].stale = FALSE] ELSE ac

\* Values the cache-age test of check_and_stop_if_no_accounts can take.
FreshChoices == IF check_cache = "none" THEN {FALSE} ELSE BOOLEAN

\* ------------------------------------------------------- senders: actions

\* The assignments every step of sender s of run r makes.
SenderStep(r, s, c, tgt2, acct2, sc2, logs2) ==
    /\ snd' = [snd EXCEPT ![r][s] = c.sd]
    /\ failed_count' = failed_count + c.fc
    /\ status' = c.st
    /\ check_cache' = c.cache
    /\ tgt' = tgt2
    /\ acct' = [a \in Accounts |->
                  IF a \in c.rs THEN [acct2[a] EXCEPT !.sent_today = 0] ELSE acct2[a]]
    /\ sent_count' = sc2
    /\ has_logs' = logs2
    /\ attempted' = IF c.sd.pc = "sending"
                    THEN [attempted EXCEPT ![r] = @ \cup {c.sd.tgts[c.sd.i]}]
                    ELSE attempted
    /\ UNCHANGED <<task_exists, cfg, running_tasks, stop_flags, report_sent,
                   report_retry_count, run, stopPc, stopRun, refused>>
    /\ UNCHANGED <<clientVars, probe>>

Ctx0(r, s) == Ctx(snd[r][s], 0, status, check_cache)

\* First step of a sender coroutine once gather has scheduled it.
SenderStart(r, s, fresh) ==
    /\ run[r].pc = "gather"
    /\ snd[r][s].pc = "start"
    /\ SenderStep(r, s, LoopHead(r, [Ctx0(r, s) EXCEPT !.sd.i = 1], fresh),
                  tgt, acct, sent_count, has_logs)

\* The transport call of _do_send_message returns.
\*   "ok"       delivered: the target is marked sent, the mode's loop counts it;
\*   "invalid"  the entity lookup failed: the target is marked invalid;
\*   "privacy"  UserPrivacyRestricted, UserIsBlocked, ChatWriteForbidden or
\*              UserNotMutualContact (lines 3822-3850): returns False;
\*   "fail"     any other error: returns False;
\*   "flood"    FloodWaitError: the oracle is asked next.
SendResult(r, s, o, fresh) ==
    LET sd == snd[r][s]
        t == sd.tgts[sd.i]
        a == sd.acc
        c == Ctx0(r, s)
        gaveUp == sd.k >= cfg.retry_count
        sentTgt == IF tgt[t].exists THEN [tgt EXCEPT ![t].is_sent = TRUE] ELSE tgt
        invTgt == IF tgt[t].exists THEN [tgt EXCEPT ![t].is_valid = FALSE] ELSE tgt
    IN
    /\ sd.pc = "sending"
    /\ CASE o = "ok" ->
              SenderStep(r, s,
                  StartInterval(r, [c EXCEPT !.sd.cf = 0], fresh),
                  sentTgt,
                  [acct EXCEPT ![a].sent_today = @ + 1, ![a].stale = FALSE],
                  IF task_exists THEN sent_count + 1 ELSE sent_count,
                  TRUE)
         [] o = "invalid" ->
              SenderStep(r, s, AttemptFailed(r, c, fresh),
                         FailedTgt(invTgt, t, a, gaveUp), UsedAcct(acct, a, gaveUp),
                         sent_count, TRUE)
         [] o = "privacy" ->
              SenderStep(r, s, AttemptFailed(r, c, fresh),
                         FailedTgt([tgt EXCEPT ![t].blocked = @ \cup {a}], t, a, gaveUp),
                         UsedAcct(acct, a, gaveUp), sent_count, TRUE)
         [] o = "fail" ->
              SenderStep(r, s, AttemptFailed(r, c, fresh),
                         FailedTgt(tgt, t, a, gaveUp), UsedAcct(acct, a, gaveUp),
                         sent_count, TRUE)
         [] OTHER ->
              SenderStep(r, s, [c EXCEPT !.sd.pc = "oracle"],
                         tgt, acct, sent_count, has_logs)

\* check_account_real_status returns inside the FloodWait handler (lines
\* 3852-3906): the account becomes banned or limited, then the task's
\* flood_wait_strategy is applied.
FloodOracleResult(r, s, res, fresh) ==
    LET sd == snd[r][s]
        t == sd.tgts[sd.i]
        a == sd.acc
        c == [Ctx0(r, s) EXCEPT !.sd.fw = <<a, sd.i, res>>]
        gaveUp == sd.k >= cfg.retry_count
        acct2 == [acct EXCEPT ![a].status = IF res = "banned" THEN "banned" ELSE "limited"]
    IN
    /\ sd.pc = "oracle"
    /\ CASE cfg.flood_wait_strategy = "stop_task" ->
              SenderStep(r, s,
                  AttemptFailed(r, [c EXCEPT !.st = IF task_exists THEN "stopped" ELSE @],
                                fresh),
                  FailedTgt(tgt, t, a, gaveUp), UsedAcct(acct2, a, gaveUp),
                         sent_count, TRUE)
         [] cfg.flood_wait_strategy = "continue_wait" ->
              SenderStep(r, s, [c EXCEPT !.sd.pc = "flood_sleep"],
                         tgt, acct2, sent_count, TRUE)
         [] OTHER ->
              SenderStep(r, s, AttemptFailed(r, c, fresh),
                         FailedTgt(tgt, t, a, gaveUp), UsedAcct(acct2, a, gaveUp),
                         sent_count, TRUE)

\* `await asyncio.sleep(e.seconds)` of the continue_wait strategy ends.
FloodWake(r, s, fresh) ==
    LET sd == snd[r][s] IN
    /\ sd.pc = "flood_sleep"
    /\ SenderStep(r, s, AttemptFailed(r, Ctx0(r, s), fresh),
                  FailedTgt(tgt, sd.tgts[sd.i], sd.acc, sd.k >= cfg.retry_count),
                  UsedAcct(acct, sd.acc, sd.k >= cfg.retry_count), sent_count, has_logs)

\* e.seconds of the FloodWaitError, and one second of the plain
\* `await asyncio.sleep(e.seconds)` of line 3902 passing: the sleep looks at
\* nothing, it ends when e.seconds have passed.
FloodSeconds == 2

FloodTick(r, s, fresh) ==
    LET sd == snd[r][s]
        c == Ctx0(r, s)
    IN
    /\ sd.pc = "flood_sleep"
    /\ IF sd.w + 1 < FloodSeconds
       THEN SenderStep(r, s, [c EXCEPT !.sd.w = @ + 1], tgt, acct, sent_count, has_logs)
       ELSE SenderStep(r, s, AttemptFailed(r, [c EXCEPT !.sd.w = 0], fresh),
                       FailedTgt(tgt, sd.tgts[sd.i], sd.acc, sd.k >= cfg.retry_count),
                       UsedAcct(acct, sd.acc, sd.k >= cfg.retry_count),
                       sent_count, has_logs)

\* `await asyncio.sleep(retry_interval)` of _send_message ends and the next
\* attempt of the same logical send starts (lines 3648-3652).
RetryWake(r, s) ==
    /\ snd[r][s].pc = "retry_sleep"
    /\ SenderStep(r, s, [Ctx0(r, s) EXCEPT !.sd.pc = "sending"],
                  tgt, acct, sent_count, has_logs)

\* The same step when a limited or banned answer is stored on the account
\* without leaving the loop.
ForceOracleResultNoBreak(r, s, res, fresh) ==
    LET sd == snd[r][s]
        c == [Ctx0(r, s) EXCEPT !.sd.fw = <<sd.acc, sd.i, res>>]
    IN
    /\ sd.pc = "oracle_force"
    /\ CASE res = "active" ->
              SenderStep(r, s, StartInterval(r, [c EXCEPT !.sd.cf = 0], fresh),
                         tgt, acct, sent_count, has_logs)
         [] res \in {"limited", "banned"} ->
              SenderStep(r, s, StartInterval(r, c, fresh), tgt,
                         [acct EXCEPT ![sd.acc].status = res], sent_count, has_logs)
         [] OTHER ->
              SenderStep(r, s, StartInterval(r, c, fresh),
                         tgt, acct, sent_count, has_logs)

\* check_account_real_status returns at the consecutive-failure limit of
\* force mode (lines 2838-2874).
ForceOracleResult(r, s, res, fresh) ==
    LET sd == snd[r][s]
        c == [Ctx0(r, s) EXCEPT !.sd.fw = <<sd.acc, sd.i, res>>]
    IN
    /\ sd.pc = "oracle_force"
    /\ CASE res = "active" ->
              SenderStep(r, s, StartInterval(r, [c EXCEPT !.sd.cf = 0], fresh),
                         tgt, acct, sent_count, has_logs)
         [] res \in {"limited", "banned"} ->
              SenderStep(r, s, Finished(c), tgt,
                         [acct EXCEPT ![sd.acc].status = res], sent_count, has_logs)
         [] OTHER ->
              SenderStep(r, s, StartInterval(r, c, fresh),
                         tgt, acct, sent_count, has_logs)

\* The message interval ends.  The sleep reports an interruption when the
\* event is set, or when one of its store reads (every fifth second) saw the
\* status stopped.
SleepWake(r, s, dbseen, fresh) ==
    LET interrupted == run[r].stop_event \/ (dbseen /\ task_exists /\ status = "stopped")
    IN
    /\ snd[r][s].pc = "sleep"
    /\ SenderStep(r, s, AfterSleep(r, Ctx0(r, s), interrupted, fresh),
                  tgt, acct, sent_count, has_logs)

\* The message interval second by second.  SleepSeconds is int(seconds) of
\* _sleep_with_stop_check; `await asyncio.sleep(1)` of iteration w returns
\* and the loop goes to iteration w + 1 (lines 2163-2182):
\*   "false" / "true"  the loop is over, the result is stop_event.is_set();
\*   "true"            the event is set, or this iteration reads the store
\*                     (i % 5 = 0) and finds the status stopped;
\*   "sleeping"        the next asyncio.sleep(1) starts.
SleepSeconds == 6

SleepTickResult(r, s) ==
    LET i == snd[r][s].w + 1 IN
    IF i >= SleepSeconds THEN (IF run[r].stop_event THEN "true" ELSE "false")
    ELSE IF run[r].stop_event THEN "true"
    ELSE IF i % 5 = 0 /\ task_exists /\ status = "stopped" THEN "true"
    ELSE "sleeping"

SleepTick(r, s, fresh) ==
    LET res == SleepTickResult(r, s)
        c == Ctx0(r, s)
    IN
    /\ snd[r][s].pc = "sleep"
    /\ IF res = "sleeping"
       THEN SenderStep(r, s, [c EXCEPT !.sd.w = @ + 1], tgt, acct, sent_count, has_logs)
       ELSE SenderStep(r, s, AfterSleep(r, [c EXCEPT !.sd.w = 0], res = "true", fresh),
                       tgt, acct, sent_count, has_logs)

\* A document-store read of _sleep_with_stop_check (line 2170) raises while
\* the sender is in its message interval.  Nothing in the sender's loop
\* catches it: the exception ends the sender coroutine and becomes its result
\* in gather (return_exceptions=True).
SenderStoreFault(r, s) ==
    /\ snd[r][s].pc = "sleep"
    /\ snd' = [snd EXCEPT ![r][s] = DoneSender]
    /\ run' = [run EXCEPT ![r].exc = TRUE]
    /\ UNCHANGED <<task_exists, cfg, status, sent_count, failed_count, tgt, has_logs,
                   acct, running_tasks, stop_flags, report_sent, report_retry_count,
                   check_cache, stopPc, stopRun, refused, attempted>>
    /\ UNCHANGED <<clientVars, probe>>

\* ------------------------------------------------------ completion report

\* _send_completion_reports up to its first suspension (lines 3178-3211):
\*   "skip"      the task id is in report_sent, or the retry limit is reached;
\*   "norecord"  the id was added to report_sent, the task document is gone;
\*   "raise"     generating the report files failed: the handler of lines
\*               3507-3512 discards the id, counts the retry and then fails
\*               itself on Config.Config, so the exception leaves the function;
\*   "await"     the id was added and the report is being sent.
ReportOutcome(gen) ==
    IF report_sent \/ report_retry_count >= MAX_REPORT_RETRY_ATTEMPTS THEN "skip"
    ELSE IF ~task_exists THEN "norecord"
    ELSE IF gen = "raise" THEN "raise"
    ELSE "await"

ReportSentAfter(gen) ==
    CASE ReportOutcome(gen) = "skip" -> report_sent
      [] ReportOutcome(gen) = "raise" -> FALSE
      [] OTHER -> TRUE

ReportRetryAfter(gen) ==
    IF ReportOutcome(gen) = "raise" THEN report_retry_count + 1 ELSE report_retry_count

\* check_and_stop_if_no_accounts resumes after the admin notice and calls
\* _send_completion_reports (line 3078).
CheckNotified(r, s, gen) ==
    LET o == ReportOutcome(gen) IN
    /\ snd[r][s].pc = "check_notify"
    /\ report_sent' = ReportSentAfter(gen)
    /\ report_retry_count' = ReportRetryAfter(gen)
    /\ snd' = [snd EXCEPT ![r][s] =
                 IF o = "await" THEN [@ EXCEPT !.pc = "check_report"] ELSE DoneSender]
    /\ check_cache' = IF o \in {"skip", "norecord"} THEN "true" ELSE check_cache
    /\ run' = IF o = "raise" THEN [run EXCEPT ![r].exc = TRUE] ELSE run
    /\ UNCHANGED <<task_exists, cfg, status, sent_count, failed_count, tgt, has_logs,
                   acct, running_tasks, stop_flags, stopPc, stopRun, refused, attempted>>
    /\ UNCHANGED <<clientVars, probe>>

\* The report sent from check_and_stop_if_no_accounts is out; the result
\* True is cached and the sender leaves its loop.
CheckReportEnd(r, s) ==
    /\ snd[r][s].pc = "check_report"
    /\ run' = [run EXCEPT ![r].reports = @ + 1]
    /\ snd' = [snd EXCEPT ![r][s] = DoneSender]
    /\ check_cache' = "true"
    /\ UNCHANGED <<task_exists, cfg, status, sent_count, failed_count, tgt, has_logs,
                   acct, running_tasks, stop_flags, report_sent, report_retry_count,
                   stopPc, stopRun, refused, attempted>>
    /\ UNCHANGED <<clientVars, probe>>

\* ------------------------------------------------------------ _execute_task

\* The assignments every dispatcher step makes.
DispatchStep(r, rr, senders, st, rs, rc) ==
    /\ run' = [run EXCEPT ![r] = rr]
    /\ snd' = [snd EXCEPT ![r] = senders]
    /\ status' = st
    /\ report_sent' = rs
    /\ report_retry_count' = rc
    /\ UNCHANGED <<task_exists, cfg, sent_count, failed_count, tgt, has_logs, acct,
                   running_tasks, stop_flags, check_cache, stopPc, stopRun, refused,
                   attempted>>
    /\ UNCHANGED <<clientVars, probe>>

NoSenders == [s \in Senders |-> NoSender]

\* The run's record once the mode has returned: the snapshots are dropped.
Wound(rr, pc) ==
    [rr EXCEPT !.pc = pc, !.accounts = <<>>, !.failed0 = <<>>, !.batch = 0]

\* Lines 2249-2260 and 2319-2342: COMPLETED is written, the report is
\* started; an exception of the report reaches the handler, which writes
\* FAILED.
Complete(r, rr, gen) ==
    LET o == ReportOutcome(gen) IN
    IF o = "raise"
    THEN DispatchStep(r, [Wound(rr, "cleanup") EXCEPT !.wrote = "failed", !.exc = TRUE,
                                                     !.fields = {"status", "updated_at"}],
                      NoSenders, IF task_exists THEN "failed" ELSE status,
                      ReportSentAfter(gen), ReportRetryAfter(gen))
    ELSE DispatchStep(r, [Wound(rr, IF o = "await" THEN "report" ELSE "cleanup")
                            EXCEPT !.wrote = "completed",
                                   !.fields = {"status", "completed_at", "updated_at"}],
                      NoSenders, IF task_exists THEN "completed" ELSE status,
                      ReportSentAfter(gen), ReportRetryAfter(gen))

\* Lines 2302-2330: what _execute_task does when the mode has returned.
FinishRun(r, rr, gen) ==
    IF rr.stop_event
    THEN DispatchStep(r, Wound(rr, "cleanup"), NoSenders, status, report_sent,
                      report_retry_count)
    ELSE Complete(r, rr, gen)

\* The checks at the top of an account batch (lines 2376-2390, 2689-2699).
BatchTopStop(rr) ==
    \/ rr.stop_event
    \/ (cfg.mode = "repeat" /\ stop_flags = "true")
    \/ (task_exists /\ status # "running")

\* An account batch of a repeat or force run starts, or the mode returns.
NextAccountBatch(r, rr, b, gen) ==
    IF b > NumAccountBatches(rr) \/ BatchTopStop(rr)
    THEN FinishRun(r, rr, gen)
    ELSE DispatchStep(r, [rr EXCEPT !.pc = "gather", !.batch = b],
                      AccountBatchSenders(rr, b), status, report_sent,
                      report_retry_count)

\* First step of the dispatcher coroutine, up to its first suspension.
ExecuteTaskBegin(r, gen) ==
    LET pend == PendingTargets
        accs == get_active_accounts
        rr == [run[r] EXCEPT
                 !.targets = pend,
                 !.failed0 = [t \in {pend[j] : j \in 1..Len(pend)} |->
                                tgt[t].failed_accounts],
                 !.accounts = accs]
    IN
    /\ run[r].pc = "created"
    /\ IF ~task_exists
       THEN \* task.name on None, before the try block (lines 2204-2214)
            DispatchStep(r, [run[r] EXCEPT !.pc = "crashed", !.exc = TRUE],
                         NoSenders, status, report_sent, report_retry_count)
       ELSE IF run[r].stop_event \/ status # "running"
       THEN DispatchStep(r, [run[r] EXCEPT !.pc = "cleanup"], NoSenders, status,
                         report_sent, report_retry_count)
       ELSE IF pend = <<>>
       THEN Complete(r, run[r], gen)
       ELSE IF accs = <<>>
       THEN \* ValueError of lines 2266-2289, handled at lines 2332-2342
            DispatchStep(r, [run[r] EXCEPT !.pc = "cleanup", !.wrote = "failed",
                                           !.exc = TRUE, !.error = status_stats,
                                           !.fields = {"status", "updated_at"}],
                         NoSenders, "failed", report_sent, report_retry_count)
       ELSE IF cfg.mode = "normal"
       THEN DispatchStep(r, [rr EXCEPT !.pc = "gather", !.batch = 1],
                         NormalSenders(rr), status, report_sent, report_retry_count)
       ELSE NextAccountBatch(r, rr, 1, gen)

\* gather returns: every sender of the batch has returned (or raised, which
\* return_exceptions=True turns into a result).
RunResume(r, gen) ==
    /\ run[r].pc = "gather"
    /\ \A s \in Senders : snd[r][s].pc \in {"none", "done"}
    /\ IF cfg.mode = "normal"
       THEN FinishRun(r, run[r], gen)
       ELSE NextAccountBatch(r, run[r], run[r].batch + 1, gen)

\* The report of _execute_task has been sent.
ReportEnd(r) ==
    /\ run[r].pc = "report"
    /\ DispatchStep(r, [run[r] EXCEPT !.pc = "cleanup", !.reports = @ + 1],
                    snd[r], status, report_sent, report_retry_count)

\* The finally block (lines 2343-2356) after the progress monitor has ended:
\* the task id is removed from running_tasks and stop_flags, whichever run
\* the entries belong to.
RunCleanup(r) ==
    /\ run[r].pc = "cleanup"
    /\ run' = [run EXCEPT ![r].pc = "done"]
    /\ running_tasks' = 0
    /\ stop_flags' = "none"
    /\ UNCHANGED <<task_exists, cfg, status, sent_count, failed_count, tgt, has_logs,
                   acct, report_sent, report_retry_count, check_cache, snd, stopPc,
                   stopRun, refused, attempted>>
    /\ UNCHANGED <<clientVars, probe>>

\* --------------------------------------- start_task, stop_task, delete_task

\* The run start_task would create: the first one not created yet.
FreshRun ==
    CHOOSE r \in DOMAIN run :
        run[r].pc = "unborn" /\ \A q \in DOMAIN run : q < r => run[q].pc # "unborn"

\* start_task without the rejection of a task that is already running: the task
\* is only looked up, then a run is spawned whatever its status.
StartTaskUnchecked ==
    IF ~task_exists
    THEN /\ refused' = "start"
         /\ UNCHANGED <<task_exists, cfg, status, sent_count, failed_count, tgt,
                        has_logs, acct, running_tasks, stop_flags, report_sent,
                        report_retry_count, check_cache, run, snd, stopPc, stopRun,
                        attempted>>
         /\ UNCHANGED <<clientVars, probe>>
    ELSE /\ \E r \in DOMAIN run : run[r].pc = "unborn"
         /\ status' = "running"
         /\ stop_flags' = "false"
         /\ run' = [run EXCEPT ![FreshRun].pc = "created"]
         /\ running_tasks' = FreshRun
         /\ refused' = "none"
         /\ UNCHANGED <<task_exists, cfg, sent_count, failed_count, tgt, has_logs,
                        acct, report_sent, report_retry_count, check_cache, snd,
                        stopPc, stopRun, attempted>>
         /\ UNCHANGED <<clientVars, probe>>

\* start_task (lines 2030-2060); it never suspends.
StartTask ==
    IF ~task_exists \/ status = "running"
    THEN /\ refused' = "start"
         /\ UNCHANGED <<task_exists, cfg, status, sent_count, failed_count, tgt,
                        has_logs, acct, running_tasks, stop_flags, report_sent,
                        report_retry_count, check_cache, run, snd, stopPc, stopRun,
                        attempted>>
         /\ UNCHANGED <<clientVars, probe>>
    ELSE /\ \E r \in DOMAIN run : run[r].pc = "unborn"
         /\ status' = "running"
         /\ stop_flags' = "false"
         /\ run' = [run EXCEPT ![FreshRun].pc = "created"]
         /\ running_tasks' = FreshRun
         /\ refused' = "none"
         /\ UNCHANGED <<task_exists, cfg, sent_count, failed_count, tgt, has_logs,
                        acct, report_sent, report_retry_count, check_cache, snd,
                        stopPc, stopRun, attempted>>
         /\ UNCHANGED <<clientVars, probe>>

\* stop_task up to its first suspension (lines 2062-2112).
StopTaskCall ==
    /\ stopPc = "idle"
    /\ status' = IF task_exists THEN "stopped" ELSE status
    /\ IF running_tasks = 0
       THEN UNCHANGED <<run, stop_flags, stopPc, stopRun>>
       ELSE /\ run' = [run EXCEPT ![running_tasks].stop_event = TRUE]
            /\ stop_flags' = "true"
            /\ stopPc' = "waiting"
            /\ stopRun' = running_tasks
    /\ UNCHANGED <<task_exists, cfg, sent_count, failed_count, tgt, has_logs, acct,
                   running_tasks, report_sent, report_retry_count, check_cache, snd,
                   refused, attempted>>
    /\ UNCHANGED <<clientVars, probe>>

\* The 3 s of wait_for pass and the cancellation has no effect on the
\* dispatcher: stop_task awaits a coroutine that stays where it is.
StopTaskTimeoutNoCancel ==
    /\ stopPc = "waiting"
    /\ run[stopRun].pc \in {"gather", "report"}
    /\ stopPc' = "cancelling"
    /\ UNCHANGED <<task_exists, cfg, status, sent_count, failed_count, tgt, has_logs,
                   acct, running_tasks, stop_flags, report_sent, report_retry_count,
                   check_cache, run, snd, stopRun, refused, attempted>>
    /\ UNCHANGED <<clientVars, probe>>

\* The 3 s of wait_for pass while the dispatcher is suspended in a send, a
\* sleep or the report: the dispatcher is cancelled (lines 2114-2120).  The
\* cancellation ends its senders and takes it to its finally block.
StopTaskTimeout ==
    /\ stopPc = "waiting"
    /\ run[stopRun].pc \in {"gather", "report"}
    /\ run' = [run EXCEPT ![stopRun] = Wound(@, "cleanup")]
    /\ snd' = [snd EXCEPT ![stopRun] = NoSenders]
    /\ stopPc' = "cancelling"
    /\ UNCHANGED <<task_exists, cfg, status, sent_count, failed_count, tgt, has_logs,
                   acct, running_tasks, stop_flags, report_sent, report_retry_count,
                   check_cache, stopRun, refused, attempted>>
    /\ UNCHANGED <<clientVars, probe>>

\* The awaited dispatcher has ended: stop_task removes the task id from
\* running_tasks and stop_flags (lines 2126-2133).  A dispatcher that ended
\* with an exception re-raises it in stop_task, which then skips the cleanup.
StopTaskJoin ==
    /\ stopPc \in {"waiting", "cancelling"}
    /\ run[stopRun].pc \in {"done", "crashed"}
    /\ IF run[stopRun].pc = "done"
       THEN running_tasks' = 0 /\ stop_flags' = "none"
       ELSE UNCHANGED <<running_tasks, stop_flags>>
    /\ stopPc' = "idle"
    /\ stopRun' = 0
    /\ refused' = IF run[stopRun].pc = "crashed" THEN "stop" ELSE refused
    /\ UNCHANGED <<task_exists, cfg, status, sent_count, failed_count, tgt, has_logs,
                   acct, report_sent, report_retry_count, check_cache, run, snd,
                   attempted>>
    /\ UNCHANGED <<clientVars, probe>>

\* stop_task on a registered task when the status write of lines 2100-2107
\* raises: the event and the flag are set already (lines 2092, 2096), the
\* exception leaves stop_task before the wait and before the clean-up of
\* lines 2126-2133.
StopTaskStoreFault ==
    /\ stopPc = "idle"
    /\ running_tasks # 0
    /\ run' = [run EXCEPT ![running_tasks].stop_event = TRUE]
    /\ stop_flags' = "true"
    /\ refused' = "stop"
    /\ UNCHANGED <<task_exists, cfg, status, sent_count, failed_count, tgt, has_logs,
                   acct, running_tasks, report_sent, report_retry_count, check_cache,
                   snd, stopPc, stopRun, attempted>>
    /\ UNCHANGED <<clientVars, probe>>

\* delete_task (lines 2137-2158); it never suspends.
DeleteTask ==
    IF running_tasks # 0
    THEN /\ refused' = "delete"
         /\ UNCHANGED <<task_exists, cfg, status, sent_count, failed_count, tgt,
                        has_logs, acct, running_tasks, stop_flags, report_sent,
                        report_retry_count, check_cache, run, snd, stopPc, stopRun,
                        attempted>>
         /\ UNCHANGED <<clientVars, probe>>
    ELSE /\ tgt' = [t \in DOMAIN tgt |-> [tgt[t] EXCEPT !.exists = FALSE]]
         /\ has_logs' = FALSE
         /\ task_exists' = FALSE
         /\ refused' = IF task_exists THEN "none" ELSE "delete"
         /\ UNCHANGED <<cfg, status, sent_count, failed_count, acct, running_tasks,
                        stop_flags, report_sent, report_retry_count, check_cache, run,
                        snd, stopPc, stopRun, attempted>>
         /\ UNCHANGED <<clientVars, probe>>

\* ------------------------------------------------------- the status oracle

\* str.lower() on the letters of the replies.
UpperLetters == "ABCDEFGHIJKLMNOPQRSTUVWXYZ"
LowerLetters == "abcdefghijklmnopqrstuvwxyz"

LowerChar(ch) ==
    IF \E k \in 1..26 : SubSeq(UpperLetters, k, k) = ch
    THEN LET k == CHOOSE j \in 1..26 : SubSeq(UpperLetters, j, j) = ch
         IN SubSeq(LowerLetters, k, k)
    ELSE ch

RECURSIVE Lower(_)
Lower(text) ==
    IF Len(text) = 0 THEN ""
    ELSE IF Len(text) = 1 THEN LowerChar(text)
    ELSE Lower(SubSeq(text, 1, Len(text) \div 2))
            \o Lower(SubSeq(text, Len(text) \div 2 + 1, Len(text)))

\* `keyword in response`
Contains(text, kw) ==
    \E j \in 1..(Len(text) - Len(kw) + 1) : SubSeq(text, j, j + Len(kw) - 1) = kw

\* any(keyword in response for keyword in keywords)
ContainsAny(text, keywords) ==
    \E j \in 1..Len(keywords) : Contains(text, keywords[j])

\* The classification of lines 376-382.  The keyword lists are those of the
\* source without their Chinese entries: the replies checked here are
\* English.
RealStatus(text) ==
    LET response == Lower(text) IN
    IF ContainsAny(response, <<"banned", "ban", "spam", "block">>) THEN "banned"
    ELSE IF ContainsAny(response, <<"limit", "restrict", "frozen">>) THEN "limited"
    ELSE "active"

\* check_account_real_status (lines 330-421) for a query of the status bot
\* that meets o: a reply, no reply, a timeout of wait_for or another
\* exception; cache is the account's cache entry and fresh says that it is
\* younger than ACCOUNT_STATUS_CACHE_DURATION.
check_account_real_status(o, cache, fresh) ==
    IF cache # "none" /\ fresh THEN cache
    ELSE IF o.kind # "reply" THEN "unknown"
    ELSE RealStatus(o.text)

\* status_patterns of check_all_accounts_status (lines 5338-5419), without
\* the Chinese entries.
status_patterns ==
    [
      geo |->
      <<
         "some phone numbers may trigger a harsh response",
         "phone numbers may trigger"
      >>,
      unlimited |->
      <<
         "good news, no limits are currently applied", "you're free as a bird",
         "no limits", "free as a bird", "no restrictions", "all good",
         "account is free", "working fine", "not limited"
      >>,
      temporary |->
      <<
         "account is now limited until", "limited until", "account is limited until",
         "moderators have confirmed the report", "users found your messages annoying",
         "will be automatically released", "limitations will last longer next time",
         "while the account is limited", "temporarily limited",
         "temporarily restricted", "temporary ban"
      >>,
      spam |->
      <<
         "actions can trigger a harsh response from our anti-spam systems",
         "account was limited", "you will not be able to send messages",
         "limited by mistake", "peer flood", "you can only"
      >>,
      frozen |->
      <<
         "permanently banned", "account has been frozen permanently",
         "permanently restricted", "account is permanently", "banned permanently",
         "permanent ban", "account was blocked for violations",
         "telegram terms of service", "blocked for violations", "terms of service",
         "violations of the telegram", "banned", "suspended"
      >>,
      pending |->
      <<
         "wait", "pending", "verification"
      >>
    ]

\* classify_status (lines 5431-5477): <<category, status>>.
classify_status(response_text) ==
    LET response_lower == Lower(response_text) IN
    IF ContainsAny(response_lower, status_patterns.geo) THEN <<"unlimited", "active">>
    ELSE IF ContainsAny(response_lower, status_patterns.temporary)
    THEN <<"limited", "limited">>
    ELSE IF ContainsAny(response_lower, status_patterns.frozen)
    THEN <<"banned", "banned">>
    ELSE IF ContainsAny(response_lower, status_patterns.spam)
    THEN <<"limited", "limited">>
    ELSE IF ContainsAny(response_lower, status_patterns.pending)
    THEN <<"restricted", "limited">>
    ELSE IF ContainsAny(response_lower, status_patterns.unlimited)
    THEN <<"unlimited", "active">>
    ELSE <<"unlimited", "active">>

\* The status check_account_with_semaphore stores for the account (lines
\* 5482-5542): the classifier's for a reply, banned when there is none or
\* the query raised.
SweepStatus(o) ==
    IF o.kind = "reply" THEN classify_status(o.text)[2] ELSE "banned"

\* Sentences of the status bot and the replies made of them: every nonempty
\* selection, in this order.
Sentences ==
    << "Some phone numbers may trigger a harsh response.",
       "Good news, no limits are currently applied.",
       "Your account is now limited until tomorrow.",
       "Your account is permanently banned.",
       "Peer flood.",
       "Verification is pending.",
       "Hello." >>

RECURSIVE ReplyFrom(_, _)
ReplyFrom(S, j) ==
    IF j > Len(Sentences) THEN ""
    ELSE LET rest == ReplyFrom(S, j + 1) IN
         IF j \notin S THEN rest
         ELSE IF rest = "" THEN Sentences[j]
         ELSE Sentences[j] \o " " \o rest

Replies == {ReplyFrom(S, 1) : S \in (SUBSET (1..Len(Sentences))) \ {{}}}

ProbeOutcomes ==
    {[kind |-> "reply", text |-> t] : t \in Replies}
        \cup {[kind |-> k, text |-> ""] : k \in {"noreply", "timeout", "exception"}}

\* Values the cache-age test of check_account_real_status can take.
FreshProbe == IF probe.cache = "none" THEN {FALSE} ELSE BOOLEAN

\* check_account_real_status is called for the account and returns.
RealStatusCheck(fresh) ==
    LET a == probe.acc
        res == check_account_real_status(probe.out, probe.cache, fresh)
        replied == ~(probe.cache # "none" /\ fresh) /\ probe.out.kind = "reply"
    IN
    /\ probe.acc # 0
    /\ probe' = [probe EXCEPT !.real = res, !.cache = IF replied THEN res ELSE @]
    /\ acct' = IF replied /\ res \in {"banned", "limited"}
               THEN [acct EXCEPT ![a].status = res]
               ELSE acct
    /\ UNCHANGED <<task_exists, cfg, status, sent_count, failed_count, tgt, has_logs,
                   running_tasks, stop_flags, report_sent, report_retry_count,
                   check_cache, run, snd, stopPc, stopRun, refused, attempted>>
    /\ UNCHANGED clientVars

\* check_all_accounts_status checks the account.
SweepCheck ==
    /\ probe.acc # 0
    /\ probe' = [probe EXCEPT !.sweep = SweepStatus(probe.out)]
    /\ acct' = [acct EXCEPT ![probe.acc].status = SweepStatus(probe.out)]
    /\ UNCHANGED <<task_exists, cfg, status, sent_count, failed_count, tgt, has_logs,
                   running_tasks, stop_flags, report_sent, report_retry_count,
                   check_cache, run, snd, stopPc, stopRun, refused, attempted>>
    /\ UNCHANGED clientVars

\* ------------------------------------------------------------ specification

Init == TaskInitWith(Configs, 1, NumTargets) /\ ClientInit

SendOutcomes == {"ok", "invalid", "fail", "flood"}
OracleResults == {"active", "limited", "banned", "unknown"}

Next ==
    \/ StartTask
    \/ StopTaskCall
    \/ StopTaskTimeout
    \/ StopTaskJoin
    \/ DeleteTask
    \/ \E r \in DOMAIN run, gen \in {"ok", "raise"} : ExecuteTaskBegin(r, gen)
    \/ \E r \in DOMAIN run, gen \in {"ok", "raise"} : RunResume(r, gen)
    \/ \E r \in DOMAIN run : ReportEnd(r)
    \/ \E r \in DOMAIN run : RunCleanup(r)
    \/ \E r \in DOMAIN run, s \in Senders, f \in FreshChoices : SenderStart(r, s, f)
    \/ \E r \in DOMAIN run, s \in Senders, o \in SendOutcomes, f \in FreshChoices :
          SendResult(r, s, o, f)
    \/ \E r \in DOMAIN run, s \in Senders, o \in {"banned", "other"}, f \in FreshChoices :
          FloodOracleResult(r, s, o, f)
    \/ \E r \in DOMAIN run, s \in Senders, f \in FreshChoices : FloodWake(r, s, f)
    \/ \E r \in DOMAIN run, s \in Senders : RetryWake(r, s)
    \/ \E r \in DOMAIN run, s \in Senders, o \in OracleResults, f \in FreshChoices :
          ForceOracleResult(r, s, o, f)
    \/ \E r \in DOMAIN run, s \in Senders, d \in BOOLEAN, f \in FreshChoices :
          SleepWake(r, s, d, f)

Spec == Init /\ [][Next]_vars

\* The same runs with store faults in the senders.
FaultNext ==
    \/ Next
    \/ \E r \in DOMAIN run, s \in Senders : SenderStoreFault(r, s)
    \/ StopTaskStoreFault

SpecFault == Init /\ [][FaultNext]_vars

\* Scheduling of the event loop: a coroutine that is ready to run is run (the
\* dispatcher's first step, its finally block, the continuation of stop_task)
\* and the 3 s timer of wait_for fires.  Nothing is assumed about transport
\* calls and sleeps: a send may never return.
StopFairness ==
    /\ WF_vars(StopTaskTimeout)
    /\ WF_vars(StopTaskJoin)
    /\ WF_vars(\E r \in DOMAIN run, gen \in {"ok", "raise"} : ExecuteTaskBegin(r, gen))
    /\ WF_vars(\E r \in DOMAIN run, gen \in {"ok", "raise"} : RunResume(r, gen))
    /\ WF_vars(\E r \in DOMAIN run : RunCleanup(r))

SpecLive == Init /\ [][Next]_vars /\ StopFairness

\* get_client on its own: no task is started while the callers run.
TaskIdle ==
    TaskInitWith({CHOOSE c \in Configs : c.mode = "normal" /\ c.thread_count = 1},
                 1, NumTargets)

ClientOnlyInit == TaskIdle /\ ClientInit

ClientStep == ClientNext /\ UNCHANGED taskVars

SpecClient == ClientOnlyInit /\ [][ClientStep]_vars

\* The lifecycle of a task that is started again: room for MaxRuns dispatcher
\* coroutines of one normal-mode task, sends that succeed or fail.
RestartConfigs == {c \in Configs : c.mode = "normal" /\ c.thread_count = 1}

RestartInit == TaskInitWith(RestartConfigs, MaxRuns, NumTargets) /\ ClientInit

RestartNext ==
    \/ StartTask
    \/ StopTaskCall
    \/ StopTaskTimeout
    \/ StopTaskJoin
    \/ DeleteTask
    \/ \E r \in DOMAIN run : ExecuteTaskBegin(r, "ok")
    \/ \E r \in DOMAIN run : RunResume(r, "ok")
    \/ \E r \in DOMAIN run : ReportEnd(r)
    \/ \E r \in DOMAIN run : RunCleanup(r)
    \/ \E r \in DOMAIN run, s \in Senders : SenderStart(r, s, FALSE)
    \/ \E r \in DOMAIN run, s \in Senders, o \in {"ok", "fail"} : SendResult(r, s, o, FALSE)
    \/ \E r \in DOMAIN run, s \in Senders, d \in BOOLEAN : SleepWake(r, s, d, FALSE)

SpecRestart == RestartInit /\ [][RestartNext]_vars

\* A long normal-mode batch: one sender works through LongTargets targets
\* whose sends all fail (plain failures and FloodWait), so that the
\* consecutive-failure threshold and the every-tenth-target account check of
\* _process_batch_normal_mode are reached.
LongTargets == 50

LongConfigs ==
    { [mode |-> "normal", thread_count |-> 1, retry_count |-> 0,
       flood_wait_strategy |-> "switch_account", limit |-> 0] }

LongInit == TaskInitWith(LongConfigs, 1, LongTargets) /\ ClientInit

LongNext ==
    \/ StartTask
    \/ StopTaskCall
    \/ StopTaskTimeout
    \/ StopTaskJoin
    \/ \E r \in DOMAIN run : ExecuteTaskBegin(r, "ok")
    \/ \E r \in DOMAIN run : RunResume(r, "ok")
    \/ \E r \in DOMAIN run : ReportEnd(r)
    \/ \E r \in DOMAIN run : RunCleanup(r)
    \/ \E r \in DOMAIN run, s \in Senders, f \in FreshChoices : SenderStart(r, s, f)
    \/ \E r \in DOMAIN run, s \in Senders, o \in {"fail", "flood"}, f \in FreshChoices :
          SendResult(r, s, o, f)
    \/ \E r \in DOMAIN run, s \in Senders, o \in {"banned", "other"}, f \in FreshChoices :
          FloodOracleResult(r, s, o, f)
    \/ \E r \in DOMAIN run, s \in Senders : CheckNotified(r, s, "ok")
    \/ \E r \in DOMAIN run, s \in Senders : CheckReportEnd(r, s)

SpecLong == LongInit /\ [][LongNext]_vars

\* Status-only stops: tasks of the three modes whose flood-wait strategy is
\* stop_task, so that the FloodWait handler of one sender writes stopped
\* (lines 3892-3899) without setting the stop event while the other sender
\* of the batch is at work.  stop_task is never called.
StatusConfigs ==
    { [mode |-> m, thread_count |-> 2, retry_count |-> 0,
       flood_wait_strategy |-> "stop_task", limit |-> 1] : m \in {"normal", "repeat", "force"} }

StatusInit == TaskInitWith(StatusConfigs, 1, NumTargets) /\ ClientInit

StatusNext ==
    \/ StartTask
    \/ \E r \in DOMAIN run : ExecuteTaskBegin(r, "ok")
    \/ \E r \in DOMAIN run : RunResume(r, "ok")
    \/ \E r \in DOMAIN run : ReportEnd(r)
    \/ \E r \in DOMAIN run : RunCleanup(r)
    \/ \E r \in DOMAIN run, s \in Senders : SenderStart(r, s, FALSE)
    \/ \E r \in DOMAIN run, s \in Senders, o \in {"ok", "fail", "flood"} :
          SendResult(r, s, o, FALSE)
    \/ \E r \in DOMAIN run, s \in Senders, o \in {"banned", "other"} :
          FloodOracleResult(r, s, o, FALSE)
    \/ \E r \in DOMAIN run, s \in Senders, o \in OracleResults :
          ForceOracleResult(r, s, o, FALSE)
    \/ \E r \in DOMAIN run, s \in Senders, d \in BOOLEAN : SleepWake(r, s, d, FALSE)

SpecStatus == StatusInit /\ [][StatusNext]_vars

\* The split of a normal-mode run into batches: 1..SplitTargets pending
\* targets, thread_count 1..SplitThreads, one or two active accounts whose
\* daily limit is out of reach, every send delivered at the first attempt,
\* no stop.
SplitTargets == 3
SplitThreads == 3

SplitConfigs ==
    { [mode |-> "normal", thread_count |-> k, retry_count |-> 0,
       flood_wait_strategy |-> "switch_account", limit |-> 0] : k \in 1..SplitThreads }

SplitInit ==
    /\ \E n \in 1..SplitTargets :
          TaskInitAccounts(SplitConfigs, 1, n, {"active", "limited"}, SplitTargets + 1)
    /\ acct[1].status = "active"
    /\ ClientInit

SplitNext ==
    \/ StartTask
    \/ \E r \in DOMAIN run : ExecuteTaskBegin(r, "ok")
    \/ \E r \in DOMAIN run : RunResume(r, "ok")
    \/ \E r \in DOMAIN run : ReportEnd(r)
    \/ \E r \in DOMAIN run : RunCleanup(r)
    \/ \E r \in DOMAIN run, s \in Senders : SenderStart(r, s, FALSE)
    \/ \E r \in DOMAIN run, s \in Senders : SendResult(r, s, "ok", FALSE)
    \/ \E r \in DOMAIN run, s \in Senders : SleepWake(r, s, FALSE, FALSE)

SpecSplit == SplitInit /\ [][SplitNext]_vars

\* Force-mode tasks whose retry_count is not 0 (the default of Task is 3).
ForceRetryConfigs ==
    { [mode |-> "force", thread_count |-> k, retry_count |-> 1,
       flood_wait_strategy |-> "switch_account", limit |-> 1] : k \in 1..2 }

ForceRetryInit == TaskInitWith(ForceRetryConfigs, 1, NumTargets) /\ ClientInit

ForceRetryNext ==
    \/ StartTask
    \/ StopTaskCall
    \/ StopTaskTimeout
    \/ StopTaskJoin
    \/ \E r \in DOMAIN run : ExecuteTaskBegin(r, "ok")
    \/ \E r \in DOMAIN run : RunResume(r, "ok")
    \/ \E r \in DOMAIN run : ReportEnd(r)
    \/ \E r \in DOMAIN run : RunCleanup(r)
    \/ \E r \in DOMAIN run, s \in Senders : SenderStart(r, s, FALSE)
    \/ \E r \in DOMAIN run, s \in Senders, o \in {"ok", "fail"} : SendResult(r, s, o, FALSE)
    \/ \E r \in DOMAIN run, s \in Senders : RetryWake(r, s)
    \/ \E r \in DOMAIN run, s \in Senders, o \in OracleResults :
          ForceOracleResult(r, s, o, FALSE)
    \/ \E r \in DOMAIN run, s \in Senders, d \in BOOLEAN : SleepWake(r, s, d, FALSE)

SpecForceRetry == ForceRetryInit /\ [][ForceRetryNext]_vars

\* Repeat-mode tasks started with accounts that have sent 0 or 1 message
\* today, under a daily limit of 1.
RepeatConfigs == {c \in Configs : c.mode = "repeat"}

RepeatInit ==
    TaskInitSent(RepeatConfigs, 1, NumTargets, {"active"}, 0..DailyLimit, DailyLimit)
        /\ ClientInit

RepeatNext ==
    \/ StartTask
    \/ StopTaskCall
    \/ StopTaskTimeout
    \/ StopTaskJoin
    \/ \E r \in DOMAIN run : ExecuteTaskBegin(r, "ok")
    \/ \E r \in DOMAIN run : RunResume(r, "ok")
    \/ \E r \in DOMAIN run : ReportEnd(r)
    \/ \E r \in DOMAIN run : RunCleanup(r)
    \/ \E r \in DOMAIN run, s \in Senders : SenderStart(r, s, FALSE)
    \/ \E r \in DOMAIN run, s \in Senders, o \in {"ok", "fail"} : SendResult(r, s, o, FALSE)
    \/ \E r \in DOMAIN run, s \in Senders, d \in BOOLEAN : SleepWake(r, s, d, FALSE)

SpecRepeat == RepeatInit /\ [][RepeatNext]_vars

\* Force-mode tasks that leave ignore_bidirectional_limit at 0, with enough
\* targets for one account to fail DEFAULT_CONSECUTIVE_FAILURE_LIMIT times in
\* a row; every send fails.
DefaultLimitConfigs ==
    { [mode |-> "force", thread_count |-> 1, retry_count |-> 0,
       flood_wait_strategy |-> "switch_account", limit |-> 0] }

DefaultLimitInit == TaskInitWith(DefaultLimitConfigs, 1, DefaultLimitTargets) /\ ClientInit

DefaultLimitNext ==
    \/ StartTask
    \/ \E r \in DOMAIN run : ExecuteTaskBegin(r, "ok")
    \/ \E r \in DOMAIN run : RunResume(r, "ok")
    \/ \E r \in DOMAIN run : ReportEnd(r)
    \/ \E r \in DOMAIN run : RunCleanup(r)
    \/ \E r \in DOMAIN run, s \in Senders : SenderStart(r, s, FALSE)
    \/ \E r \in DOMAIN run, s \in Senders : SendResult(r, s, "fail", FALSE)
    \/ \E r \in DOMAIN run, s \in Senders, o \in OracleResults :
          ForceOracleResult(r, s, o, FALSE)
    \/ \E r \in DOMAIN run, s \in Senders : SleepWake(r, s, FALSE, FALSE)

SpecDefaultLimit == DefaultLimitInit /\ [][DefaultLimitNext]_vars

\* Runs whose sends succeed or end with a privacy error: normal-mode tasks
\* with retry_count 1 and with retry_count 0, each run up to MaxRuns times.
PrivacyConfigs ==
    {c \in Configs : c.mode = "normal" /\ c.retry_count = 1} \cup RestartConfigs

PrivacyInit == TaskInitWith(PrivacyConfigs, MaxRuns, NumTargets) /\ ClientInit

PrivacyNext ==
    \/ StartTask
    \/ \E r \in DOMAIN run : ExecuteTaskBegin(r, "ok")
    \/ \E r \in DOMAIN run : RunResume(r, "ok")
    \/ \E r \in DOMAIN run : ReportEnd(r)
    \/ \E r \in DOMAIN run : RunCleanup(r)
    \/ \E r \in DOMAIN run, s \in Senders : SenderStart(r, s, FALSE)
    \/ \E r \in DOMAIN run, s \in Senders, o \in {"ok", "privacy"} :
          SendResult(r, s, o, FALSE)
    \/ \E r \in DOMAIN run, s \in Senders : RetryWake(r, s)
    \/ \E r \in DOMAIN run, s \in Senders : SleepWake(r, s, FALSE, FALSE)

SpecPrivacy == PrivacyInit /\ [][PrivacyNext]_vars

\* Normal-mode tasks started with accounts that have sent 0 or 1 message
\* today, under a daily limit of 1: one run.
LimitSkipConfigs == {c \in Configs : c.mode = "normal"}

LimitSkipInit ==
    TaskInitSent(LimitSkipConfigs, 1, NumTargets, {"active"}, 0..DailyLimit, DailyLimit)
        /\ ClientInit

LimitSkipNext ==
    \/ StartTask
    \/ \E r \in DOMAIN run : ExecuteTaskBegin(r, "ok")
    \/ \E r \in DOMAIN run : RunResume(r, "ok")
    \/ \E r \in DOMAIN run : ReportEnd(r)
    \/ \E r \in DOMAIN run : RunCleanup(r)
    \/ \E r \in DOMAIN run, s \in Senders : SenderStart(r, s, FALSE)
    \/ \E r \in DOMAIN run, s \in Senders, o \in {"ok", "fail"} : SendResult(r, s, o, FALSE)
    \/ \E r \in DOMAIN run, s \in Senders : RetryWake(r, s)
    \/ \E r \in DOMAIN run, s \in Senders : SleepWake(r, s, FALSE, FALSE)

SpecLimitSkip == LimitSkipInit /\ [][LimitSkipNext]_vars

\* Tasks of each mode started on a new day: accounts last used before today
\* or not, with 0 or 1 message counted, under a daily limit of 1.
DayResetConfigs == {c \in Configs : c.retry_count = 0}

DayResetInit ==
    TaskInitStale(DayResetConfigs, 1, NumTargets, {"active"}, 0..DailyLimit, BOOLEAN,
                  DailyLimit)
        /\ ClientInit

DayResetNext ==
    \/ StartTask
    \/ \E r \in DOMAIN run : ExecuteTaskBegin(r, "ok")
    \/ \E r \in DOMAIN run : RunResume(r, "ok")
    \/ \E r \in DOMAIN run : ReportEnd(r)
    \/ \E r \in DOMAIN run : RunCleanup(r)
    \/ \E r \in DOMAIN run, s \in Senders : SenderStart(r, s, FALSE)
    \/ \E r \in DOMAIN run, s \in Senders, o \in {"ok", "fail"} : SendResult(r, s, o, FALSE)
    \/ \E r \in DOMAIN run, s \in Senders, o \in OracleResults :
          ForceOracleResult(r, s, o, FALSE)
    \/ \E r \in DOMAIN run, s \in Senders : SleepWake(r, s, FALSE, FALSE)

SpecDayReset == DayResetInit /\ [][DayResetNext]_vars

\* The FloodWait sleep second by second: one run of the repeat-mode task
\* whose strategy is continue_wait, stopped while its senders wait.
FloodClockConfigs == {c \in Configs : c.flood_wait_strategy = "continue_wait"}

FloodClockInit == TaskInitWith(FloodClockConfigs, 1, NumTargets) /\ ClientInit

FloodClockNext ==
    \/ StartTask
    \/ StopTaskCall
    \/ StopTaskTimeout
    \/ StopTaskJoin
    \/ \E r \in DOMAIN run : ExecuteTaskBegin(r, "ok")
    \/ \E r \in DOMAIN run : RunResume(r, "ok")
    \/ \E r \in DOMAIN run : ReportEnd(r)
    \/ \E r \in DOMAIN run : RunCleanup(r)
    \/ \E r \in DOMAIN run, s \in Senders : SenderStart(r, s, FALSE)
    \/ \E r \in DOMAIN run, s \in Senders, o \in {"ok", "fail", "flood"} :
          SendResult(r, s, o, FALSE)
    \/ \E r \in DOMAIN run, s \in Senders, o \in OracleResults :
          FloodOracleResult(r, s, o, FALSE)
    \/ \E r \in DOMAIN run, s \in Senders : FloodTick(r, s, FALSE)
    \/ \E r \in DOMAIN run, s \in Senders, d \in BOOLEAN : SleepWake(r, s, d, FALSE)

SpecFloodClock == FloodClockInit /\ [][FloodClockNext]_vars

\* The message interval second by second: the normal-mode task whose
\* FloodWait strategy is stop_task, stopped and started again while its
\* senders sleep.
ClockConfigs == {c \in Configs : c.flood_wait_strategy = "stop_task"}

ClockInit == TaskInitWith(ClockConfigs, MaxRuns, NumTargets) /\ ClientInit

ClockNext ==
    \/ StartTask
    \/ StopTaskCall
    \/ StopTaskTimeout
    \/ StopTaskJoin
    \/ \E r \in DOMAIN run : ExecuteTaskBegin(r, "ok")
    \/ \E r \in DOMAIN run : RunResume(r, "ok")
    \/ \E r \in DOMAIN run : ReportEnd(r)
    \/ \E r \in DOMAIN run : RunCleanup(r)
    \/ \E r \in DOMAIN run, s \in Senders : SenderStart(r, s, FALSE)
    \/ \E r \in DOMAIN run, s \in Senders, o \in {"ok", "fail", "flood"} :
          SendResult(r, s, o, FALSE)
    \/ \E r \in DOMAIN run, s \in Senders, o \in {"banned", "other"} :
          FloodOracleResult(r, s, o, FALSE)
    \/ \E r \in DOMAIN run, s \in Senders : SleepTick(r, s, FALSE)

SpecClock == ClockInit /\ [][ClockNext]_vars

\* The two status checks on one account, for every outcome of the query of
\* the status bot.
ProbeInit ==
    TaskInitProbe({CHOOSE c \in Configs : c.mode = "normal" /\ c.thread_count = 1},
                  1, NumTargets, {"active"}, {0}, {FALSE}, DailyLimit,
                  {[NoProbe EXCEPT !.acc = a, !.out = o] :
                      a \in Accounts, o \in ProbeOutcomes})
        /\ ClientInit

ProbeNext ==
    \/ \E f \in FreshProbe : RealStatusCheck(f)
    \/ SweepCheck

SpecProbe == ProbeInit /\ [][ProbeNext]_vars

\* Tasks started with accounts of any status: one normal-mode run.
AccountsInit ==
    TaskInitAccounts(RestartConfigs, 1, NumTargets, {"active", "limited", "banned"},
                     DailyLimit)
        /\ ClientInit

AccountsNext ==
    \/ StartTask
    \/ \E r \in DOMAIN run : ExecuteTaskBegin(r, "ok")
    \/ \E r \in DOMAIN run : RunResume(r, "ok")
    \/ \E r \in DOMAIN run : ReportEnd(r)
    \/ \E r \in DOMAIN run : RunCleanup(r)
    \/ \E r \in DOMAIN run, s \in Senders : SenderStart(r, s, FALSE)
    \/ \E r \in DOMAIN run, s \in Senders, o \in {"ok", "fail"} : SendResult(r, s, o, FALSE)
    \/ \E r \in DOMAIN run, s \in Senders, d \in BOOLEAN : SleepWake(r, s, d, FALSE)

SpecAccounts == AccountsInit /\ [][AccountsNext]_vars

\* ------------------------------------------------------------------ claims

\* A step in which sender s of run r starts a transport attempt, and the
\* target of that attempt.
AttemptBegins(r, s) == snd'[r][s].pc = "sending" /\ snd'[r][s] # snd[r][s]
AttemptTarget(r, s) == snd'[r][s].tgts[snd'[r][s].i]

Range(sq) == {sq[j] : j \in 1..Len(sq)}

\* C1: for every account, concurrent get_client calls create and connect at
\* most one session; a second caller never creates a second one.
C1_AtMostOneSessionPerAccount ==
    \A a \in Accounts : nSessions[a] <= 1

\* C2: once a target's is_sent is true, no sender begins another send
\* attempt to it.  Stated here for Force-Private mode, whose available-target
\* view is meant to leave sent targets out.
C2_NoAttemptOnSentTarget ==
    [][\A r \in DOMAIN run, s \in Senders :
          (cfg.mode = "force" /\ AttemptBegins(r, s))
              => ~tgt[AttemptTarget(r, s)].is_sent]_vars

\* C3: once the stop event of a run is set, none of its senders starts a
\* transport send, the retry attempts of one logical send included.
C3_NoSendAfterStop ==
    [][\A r \in DOMAIN run, s \in Senders :
          AttemptBegins(r, s) => ~run[r].stop_event]_vars

\* C4: once stop_task has set the stop event of a run and written stopped,
\* no step of that run's dispatcher or of its senders changes the status.
C4_StoppedStaysStopped ==
    [][\A r \in DOMAIN run :
          (run[r].stop_event /\ status = "stopped"
             /\ (run'[r] # run[r] \/ snd'[r] # snd[r]))
              => status' = "stopped"]_vars

\* C5: an account's messages_sent_today never exceeds its daily limit.
C5_DailyLimitRespected ==
    \A a \in Accounts : acct[a].sent_today <= acct[a].daily_limit

\* C6: when the dispatcher of a run has written completed, every target that
\* was pending at the start of the run was sent or had a send attempt in
\* that run.
C6_CompletedOnlyWhenExhausted ==
    \A r \in DOMAIN run :
        run[r].wrote = "completed"
            => \A t \in Range(run[r].targets) : tgt[t].is_sent \/ t \in attempted[r]

\* C7: a run in which an exception was raised (in the dispatcher or in one
\* of its senders) does not leave completed as the status it wrote, and the
\* exception does not leave the dispatcher coroutine.
C7_ExceptionLeavesFailed ==
    \A r \in DOMAIN run :
        run[r].exc => run[r].wrote # "completed" /\ run[r].pc # "crashed"

\* C8: every run that has ended has emitted exactly one completion report.
C8_ExactlyOneReportPerRun ==
    \A r \in DOMAIN run : run[r].pc = "done" => run[r].reports = 1

\* C9: a start_task call is refused exactly when the task's status is running
\* (or the task does not exist) and then changes nothing; otherwise it sets
\* the status to running and spawns exactly one dispatcher coroutine, with an
\* unset stop event, registered in running_tasks.
C9_StartTaskContract ==
    [][/\ (refused' = "start" /\ refused # "start")
            => /\ status = "running" \/ ~task_exists
               /\ UNCHANGED <<taskVarsButRefused, clientVars>>
       /\ (\E r \in DOMAIN run : run[r].pc = "unborn" /\ run'[r].pc # "unborn")
            => /\ task_exists /\ status # "running"
               /\ status' = "running"
               /\ Cardinality({r \in DOMAIN run :
                                 run[r].pc = "unborn" /\ run'[r].pc # "unborn"}) = 1
               /\ \A r \in DOMAIN run :
                     (run[r].pc = "unborn" /\ run'[r].pc # "unborn")
                        => /\ run'[r].pc = "created"
                           /\ ~run'[r].stop_event
                           /\ running_tasks' = r
                           /\ \A q \in DOMAIN run \ {r} : run'[q] = run[q]]_vars

\* C9 witness: a start_task call was refused on a running, registered task.
C9_Witness ==
    refused = "start" /\ status = "running" /\ running_tasks # 0

\* C10: a step that deletes the task record happens only when the task is
\* not running (its status is not running and none of its dispatcher
\* coroutines is executing), and it leaves no target and no log behind.
C10_DeleteOnlyWhenNotRunning ==
    [][(task_exists /\ ~task_exists')
          => /\ status # "running"
             /\ \A r \in DOMAIN run : run[r].pc \in {"unborn", "done", "crashed"}
             /\ \A t \in DOMAIN tgt : ~tgt'[t].exists
             /\ ~has_logs']_vars

\* C11: when a stop_task call finishes, by returning after the wait for the
\* dispatcher or by raising, the task id is not in running_tasks.
C11_StopLeavesTableClean ==
    [][((stopPc # "idle" /\ stopPc' = "idle") \/ (refused' = "stop" /\ refused # "stop"))
          => running_tasks' = 0]_vars

\* C12: a stop_task call that waits for the dispatcher terminates: the
\* dispatcher exits on its own or is cancelled, and stop_task finishes.
C12_StopTaskTerminates ==
    (stopPc = "waiting") ~> (stopPc = "idle")

\* C12 witness: stop_task has cancelled a dispatcher that was suspended with
\* a sender in a transport call, and is about to finish.
C12_Witness ==
    /\ stopPc = "cancelling"
    /\ run[stopRun].pc = "done"
    /\ run[stopRun].stop_event

\* A sender suspended where it can stay longer than five ticks of the
\* interruptible sleep without reading the persisted status: a transport
\* call, an oracle query, the plain sleeps of the FloodWait handler and of
\* the retry loop; the message interval too when the status is not stopped,
\* the only value _sleep_with_stop_check looks for.
SuspendedLong(sd) ==
    \/ sd.pc \in {"sending", "oracle", "oracle_force", "flood_sleep", "retry_sleep"}
    \/ (sd.pc = "sleep" /\ status # "stopped")

\* C13: after a status-only stop (the persisted status is no longer running,
\* the stop event is not set), a sender that resumes from a suspension that
\* began before the change and can end more than five ticks after it begins
\* no new send attempt.
C13_NoSendAfterStatusStop ==
    [][\A r \in DOMAIN run, s \in Senders :
          (task_exists /\ status # "running" /\ ~run[r].stop_event
             /\ SuspendedLong(snd[r][s]))
              => ~AttemptBegins(r, s)]_vars

\* C14: a run started with pending targets and no active account attempts
\* no send, leaves the status failed, and its final write to the task
\* document stores the error message with the per-status account counts.
C14_NoAccountsFailsWithBreakdown ==
    \A r \in DOMAIN run :
        run[r].error # {}
            => /\ attempted[r] = {}
               /\ run[r].wrote = "failed" /\ status = "failed"
               /\ \E f \in run[r].fields : f \notin {"status", "updated_at", "completed_at"}

\* C15: in normal mode, when every send is delivered at its first attempt
\* and nothing stops the run, the batches handed to gather together contain
\* every pending target, and the run ends completed with sent_count = n,
\* failed_count = 0 and every target sent.
C15_AllSentWhenAllSucceed ==
    \A r \in DOMAIN run :
        /\ (run[r].pc = "gather" /\ \A s \in Senders : snd[r][s].pc \in {"start", "none"})
              => UNION {Range(snd[r][s].tgts) : s \in Senders} = Range(run[r].targets)
        /\ run[r].pc = "done"
              => /\ status = "completed"
                 /\ sent_count = Len(run[r].targets)
                 /\ failed_count = 0
                 /\ \A t \in DOMAIN tgt : tgt[t].is_sent

\* C16: in normal mode with the switch_account strategy, when account A got
\* a FloodWait on target T: the handler sets A's status to banned only when
\* the oracle said banned and leaves T unsent, and the batch begins no
\* further attempt on T with A.
C16_FloodSwitchesAccount ==
    [][\A r \in DOMAIN run, s \in Senders :
          (cfg.mode = "normal" /\ cfg.flood_wait_strategy = "switch_account")
          => /\ (snd[r][s].pc = "oracle" /\ snd'[r][s].pc # "oracle"
                    /\ snd'[r][s].fw # <<>>)
                  => LET a == snd[r][s].acc
                         t == snd[r][s].tgts[snd[r][s].i]
                     IN /\ (acct'[a].status = "banned" /\ acct[a].status # "banned")
                              => snd'[r][s].fw[3] = "banned"
                        /\ tgt'[t].is_sent = tgt[t].is_sent
             /\ (AttemptBegins(r, s) /\ snd[r][s].fw # <<>>)
                  => ~(snd[r][s].fw[1] = snd'[r][s].acc /\ snd[r][s].fw[2] = snd'[r][s].i)]_vars

\* C17: in force mode, when the oracle consulted at the consecutive-failure
\* limit answers banned or limited, the account's loop ends there, the
\* account's status becomes that value and the other senders of the batch
\* are left as they are; when it answers active, the account is not
\* touched, the counter is reset to 0 and the loop goes on (interval, then
\* the next target).
C17_ForceOracleVerdict ==
    [][\A r \in DOMAIN run, s \in Senders :
          /\ (snd[r][s].pc = "oracle_force" /\ snd'[r][s].pc # "oracle_force"
                 /\ snd'[r][s].fw # <<>>)
               => LET res == snd'[r][s].fw[3]
                      a == snd[r][s].acc
                  IN /\ snd[r][s].cf >= ConsecutiveLimit
                     /\ res \in {"banned", "limited"}
                           => /\ snd'[r][s].pc = "done"
                              /\ acct'[a].status = res
                              /\ \A q \in Senders \ {s} : snd'[r][q] = snd[r][q]
                     /\ res = "active"
                           => /\ acct'[a] = acct[a]
                              /\ snd'[r][s].pc \in {"sleep", "done"}
                              /\ snd'[r][s].pc = "sleep"
                                    => snd'[r][s].cf = 0 /\ snd'[r][s].i = snd[r][s].i
                              /\ snd'[r][s].pc = "done"
                                    => run[r].stop_event \/ status = "stopped"
          /\ (cfg.mode = "force" /\ snd[r][s].pc = "sleep" /\ AttemptBegins(r, s))
               => snd'[r][s].i = snd[r][s].i + 1]_vars

\* C17 witness: an account of a force-mode batch has left its loop on the
\* answer banned and its status is banned, while the other account of the
\* batch is still sending.
C17_Witness ==
    /\ cfg.mode = "force"
    /\ \E r \in DOMAIN run, s \in Senders, q \in Senders :
          /\ snd[r][s].pc = "done"
          /\ snd[r][s].fw # <<>>
          /\ snd[r][s].fw[3] = "banned"
          /\ acct[snd[r][s].fw[1]].status = "banned"
          /\ q # s
          /\ snd[r][q].pc = "sending"

\* C18: in force mode a logical send makes one transport attempt, whatever
\* retry_count is: no sender begins an attempt with the account and on the
\* target of its previous attempt.
C18_ForceModeNeverRetries ==
    [][\A r \in DOMAIN run, s \in Senders :
          (cfg.mode = "force" /\ AttemptBegins(r, s) /\ snd[r][s].i >= 1)
              => ~(snd'[r][s].acc = snd[r][s].acc /\ snd'[r][s].i = snd[r][s].i)]_vars

\* C19: the step of get_client that records a proxy's third connection
\* failure deletes the proxy and leaves no account with that proxy_id; a
\* deleted proxy is referenced by no account, and no call of get_client that
\* chooses its proxy afterwards chooses it.
C19_ProxyDeletedAtThreeFailures ==
    [][\A p \in Proxies :
          /\ proxyFail'[p] >= PROXY_FAIL_LIMIT
                => /\ ~proxyAlive'[p]
                   /\ \A x \in Accounts : acctProxy'[x] # p
          /\ ~proxyAlive[p]
                => /\ \A x \in Accounts : acctProxy'[x] # p
                   /\ \A c \in Callers :
                         (gcPc[c] = "locked" /\ gcPc'[c] # "locked") => gcProxy'[c] # p]_vars

\* C19 witness: the proxy was deleted at its third failure while another
\* call still connects through it, and a call that chose its proxy after the
\* deletion goes on without a proxy.
C19_Witness ==
    \E p \in Proxies, c \in Callers, d \in Callers :
        /\ proxyFail[p] = PROXY_FAIL_LIMIT
        /\ ~proxyAlive[p]
        /\ gcPc[c] = "local_connect" /\ gcProxy[c] = 0
        /\ gcPc[d] = "proxy_connect" /\ gcProxy[d] = p

\* C20: in repeat mode, a sender whose account has messages_sent_today equal
\* to daily_limit when it comes to the head of its loop returns there: it
\* begins no attempt, and the step leaves the other senders of the batch,
\* the dispatcher and the task status as they are.
C20_RepeatLimitLeavesLoop ==
    [][\A r \in DOMAIN run, s \in Senders :
          (/\ cfg.mode = "repeat"
           /\ snd[r][s].pc \in {"start", "sleep"}
           /\ acct[snd[r][s].acc].sent_today = acct[snd[r][s].acc].daily_limit
           /\ snd'[r][s] # snd[r][s]
           /\ snd'[r][s] # NoSender)
              => /\ snd'[r][s].pc = "done"
                 /\ attempted' = attempted
                 /\ \A q \in Senders \ {s} : snd'[r][q] = snd[r][q]
                 /\ run' = run
                 /\ status' = status
                 /\ failed_count' = failed_count]_vars

\* C20 witness: the first account of the batch was at its limit when the
\* run began and has returned while nothing was sent or failed; the second
\* account is sending to its first target and the task is running.
C20_Witness ==
    /\ cfg.mode = "repeat"
    /\ \E r \in DOMAIN run :
          /\ run[r].pc = "gather"
          /\ acct[run[r].accounts[1]].sent_today = acct[run[r].accounts[1]].daily_limit
          /\ snd[r][1].pc = "done"
          /\ snd[r][2].pc = "sending"
          /\ snd[r][2].i = 1
    /\ sent_count = 0
    /\ failed_count = 0
    /\ status = "running"

\* C21: a force-mode task with ignore_bidirectional_limit = 0 asks the
\* oracle after exactly 10 consecutive failures of an account: the failure
\* that brings the counter to 10 leads to the oracle, and no earlier one does.
C21_DefaultLimitIsTen ==
    [][\A r \in DOMAIN run, s \in Senders :
          (cfg.mode = "force" /\ cfg.limit = 0 /\ snd'[r][s].cf > snd[r][s].cf)
              => (snd'[r][s].pc = "oracle_force" <=> snd'[r][s].cf >= 10)]_vars

\* C22: in every mode, two senders of a run never have a send in flight from
\* the same account at the same time.
C22_NoSharedAccount ==
    \A r \in DOMAIN run, s \in Senders, q \in Senders :
        (s # q /\ snd[r][s].pc = "sending" /\ snd[r][q].pc = "sending")
            => snd[r][s].acc # snd[r][q].acc

\* C23: under the stop_task strategy, the FloodWait handler marks the task
\* stopped and the sender begins no further attempt in that step; from then
\* on no sender of the run begins an attempt, and the dispatcher ends with
\* the persisted status stopped.
C23_FloodStopTaskStops ==
    [][\A r \in DOMAIN run :
          (cfg.flood_wait_strategy = "stop_task" /\ task_exists)
          => /\ \A s \in Senders :
                   (snd[r][s].pc = "oracle" /\ snd'[r][s].pc # "oracle"
                       /\ snd'[r][s] # NoSender)
                     => status' = "stopped" /\ ~AttemptBegins(r, s)
             /\ (\E s \in Senders : snd[r][s].fw # <<>>)
                   => /\ \A q \in Senders : ~AttemptBegins(r, q)
                      /\ (run[r].pc # "done" /\ run'[r].pc = "done")
                            => status' = "stopped"]_vars

\* C24: when the availability check made during a run finds no active
\* account, the task is marked stopped, and the dispatcher of that run ends
\* with the persisted status stopped.
C24_NoAccountsStopsTask ==
    [][\A r \in DOMAIN run :
          task_exists
          => /\ \A s \in Senders :
                   (snd[r][s].pc # "check_notify" /\ snd'[r][s].pc = "check_notify")
                     => status' = "stopped"
             /\ (check_cache = "true" /\ run[r].pc # "done" /\ run'[r].pc = "done")
                   => status' = "stopped"]_vars

\* C25: once a send from account a to target t has ended with a privacy
\* error, a begins no attempt on t again; the step that records the error
\* leaves the task status as it is.
C25_PrivacyPairNotRetried ==
    [][\A r \in DOMAIN run, s \in Senders :
          /\ AttemptBegins(r, s)
                => snd'[r][s].acc \notin tgt[AttemptTarget(r, s)].blocked
          /\ (snd[r][s].pc = "sending"
                 /\ tgt'[snd[r][s].tgts[snd[r][s].i]].blocked
                        # tgt[snd[r][s].tgts[snd[r][s].i]].blocked)
                => status' = status]_vars

\* C26: once a target's is_valid is false, no sender of any run begins a
\* send attempt to it.
C26_NoAttemptOnInvalidTarget ==
    [][\A r \in DOMAIN run, s \in Senders :
          AttemptBegins(r, s) => tgt[AttemptTarget(r, s)].is_valid]_vars

\* C27: after a target was marked sent, no step changes a field of its
\* document while the document exists: is_sent, is_valid and failed_accounts
\* keep their values.
C27_SentTargetFrozen ==
    [][\A t \in DOMAIN tgt :
          (tgt[t].exists /\ tgt[t].is_sent /\ tgt'[t].exists)
              => /\ tgt'[t].is_sent
                 /\ tgt'[t].is_valid = tgt[t].is_valid
                 /\ tgt'[t].failed_accounts = tgt[t].failed_accounts]_vars

\* C28: for a task of normal or force mode, sent_count + failed_count never
\* exceeds total_targets.
C28_CountsWithinTotal ==
    (task_exists /\ cfg.mode \in {"normal", "force"})
        => sent_count + failed_count <= total_targets

\* C29: in normal mode, batch s (batch index s - 1) makes its first attempt
\* with accounts[(s - 1) mod n] when that account is under its daily limit;
\* an attempt on a target follows at most n - 1 earlier attempts on it.
C29_BatchStartsWithAssignedAccount ==
    [][\A r \in DOMAIN run, s \in Senders :
          (cfg.mode = "normal" /\ AttemptBegins(r, s))
          => LET pool == run[r].accounts
                 assigned == pool[((s - 1) % Len(pool)) + 1]
             IN /\ (snd[r][s].pc = "start"
                       /\ acct[assigned].sent_today < acct[assigned].daily_limit)
                     => snd'[r][s].acc = assigned
                /\ snd'[r][s].att < Len(pool)]_vars

\* C30: in normal mode, skipping accounts that are at their daily limit
\* does not by itself record a target as failed: a batch that comes to a
\* target from the start of its loop or from its message interval does not
\* increment failed_count in that step, since no send has been attempted on
\* the target yet.
C30_LimitSkipIsNotAFailure ==
    [][\A r \in DOMAIN run, s \in Senders :
          (cfg.mode = "normal" /\ ~run[r].stop_event
             /\ snd[r][s].pc \in {"start", "sleep"}
             /\ snd'[r][s] # snd[r][s])
              => failed_count' = failed_count]_vars

\* C31: a sender that starts its loop with a target to send and no stop
\* requested, and whose first account was last used before today, resets
\* that account's messages_sent_today to 0 and sends with it, also when the
\* stale counter is at or above daily_limit.
C31_StaleCounterResetBeforeLimit ==
    [][\A r \in DOMAIN run, s \in Senders :
          LET a == IF cfg.mode = "normal" THEN run[r].accounts[1] ELSE snd[r][s].acc
          IN (/\ snd[r][s].pc = "start"
              /\ snd'[r][s].pc \notin {"start", "none"}
              /\ Len(snd[r][s].tgts) >= 1
              /\ ~run[r].stop_event /\ stop_flags # "true" /\ status = "running"
              /\ acct[a].stale)
                 => /\ snd'[r][s].pc = "sending"
                    /\ snd'[r][s].acc = a
                    /\ acct'[a].sent_today = 0]_vars

\* C32: under continue_wait the FloodWait duration is slept interruptibly: a
\* second of the wait that passes while the run's stop event is set ends the
\* wait (the sender is no longer waiting out the FloodWait after it).
C32_FloodWaitInterruptible ==
    [][\A r \in DOMAIN run, s \in Senders :
          (/\ snd[r][s].pc = "flood_sleep"
           /\ run[r].stop_event
           /\ run'[r] = run[r]
           /\ snd'[r][s] # snd[r][s])
              => snd'[r][s].pc # "flood_sleep"]_vars

\* C34: a second of the interruptible sleep that ends while the stop event is
\* set makes the sleep return true; so does every fifth one when the stored
\* status of the task is not running; the sleep returns false only when the
\* whole duration has passed.
C34_SleepReturnsOnStopOrStatus ==
    [][\A r \in DOMAIN run, s \in Senders :
          (/\ snd[r][s].pc = "sleep"
           /\ run'[r] = run[r]
           /\ snd'[r][s] # snd[r][s])
              => /\ run[r].stop_event => SleepTickResult(r, s) = "true"
                 /\ (/\ (snd[r][s].w + 1) % 5 = 0
                     /\ snd[r][s].w + 1 < SleepSeconds
                     /\ task_exists
                     /\ status # "running") => SleepTickResult(r, s) = "true"
                 /\ SleepTickResult(r, s) = "false" => snd[r][s].w + 1 >= SleepSeconds
                 /\ SleepTickResult(r, s) = "sleeping" <=> snd'[r][s].pc = "sleep"]_vars

\* C33: when the FloodWait handler has asked the status oracle, the stored
\* status of the account is the oracle's answer: banned, limited, or what it
\* was (active) when the oracle answers active.
C33_FloodStatusFollowsOracle ==
    [][\A r \in DOMAIN run, s \in Senders :
          (/\ snd[r][s].pc = "oracle"
           /\ snd'[r][s].pc # "oracle"
           /\ run'[r] = run[r]
           /\ snd'[r][s].fw # <<>>
           /\ snd'[r][s].fw[3] \in {"active", "limited", "banned"})
              => LET a == snd[r][s].acc
                     res == snd'[r][s].fw[3]
                 IN acct'[a].status = IF res = "active" THEN acct[a].status ELSE res]_vars

\* C35: check_account_real_status returns banned when the status bot gives
\* no reply or the query raises (a timeout included), and returns active
\* only for a reply in which it finds none of its keywords.
C35_NoReplyMeansBanned ==
    probe.real # "none" =>
        /\ probe.out.kind # "reply" => probe.real = "banned"
        /\ probe.real = "active" =>
              /\ probe.out.kind = "reply"
              /\ ~ContainsAny(Lower(probe.out.text),
                              <<"banned", "ban", "spam", "block", "limit", "restrict",
                                "frozen">>)

\* C36: for every reply of the status bot, check_account_real_status and
\* the classifier of check_all_accounts_status give the same status.
C36_OracleAgreesWithSweep ==
    (probe.out.kind = "reply" /\ probe.real # "none" /\ probe.sweep # "none")
        => probe.real = probe.sweep

\* A dispatcher coroutine that has started to execute and has not ended.
LiveDispatcher(r) == run[r].pc \in {"gather", "report", "cleanup"}

\* C37: whatever the interleaving of start_task and stop_task, at most one
\* dispatcher coroutine of the task executes at a time, and every dispatcher
\* that executes is the one registered in running_tasks.
C37_OneRegisteredDispatcher ==
    /\ Cardinality({r \in DOMAIN run : LiveDispatcher(r)}) <= 1
    /\ \A r \in DOMAIN run : LiveDispatcher(r) => running_tasks = r

\* The send in flight of sender s of run r returns while the stop event is
\* set, and the normal-mode batch has another account under its daily limit
\* to try: if the send has failed, the wrapper is called for that account
\* and returns False at once, without a transport attempt.
NextSendShortCircuited(r, s) ==
    LET sd == snd[r][s]
        pool == run[r].accounts
    IN /\ cfg.mode = "normal"
       /\ sd.pc = "sending"
       /\ run[r].stop_event
       /\ run'[r] = run[r]
       /\ snd'[r][s] # sd
       /\ sd.att + 1 < Len(pool)
       /\ LET b == pool[((sd.ai + 1) % Len(pool)) + 1]
          IN acct[b].sent_today < acct[b].daily_limit

\* C38: a send the stop signal short-circuits is not counted as a failure:
\* the step in which it happens leaves failed_count as it was and records
\* nothing on the target.
C38_ShortCircuitNotCounted ==
    [][\A r \in DOMAIN run, s \in Senders :
          NextSendShortCircuited(r, s)
              => /\ failed_count' = failed_count
                 /\ \A t \in DOMAIN tgt :
                       tgt'[t].failed_accounts = tgt[t].failed_accounts]_vars

\* C39: when the completion report that follows the dispatcher's COMPLETED
\* write fails, the failure is counted in report_retry_count and the stored
\* status stays completed.
C39_ReportFailureKeepsCompleted ==
    [][\A r \in DOMAIN run :
          (/\ run'[r].pc # run[r].pc
           /\ report_retry_count' = report_retry_count + 1
           /\ task_exists)
              => status' = "completed"]_vars

\* C40: stop_task changes the stored status only of a running task: no step
\* other than a sender's takes a pending, completed or failed task to
\* stopped.
C40_StopOnlyChangesRunning ==
    [][(status \in {"pending", "completed", "failed"} /\ snd' = snd)
          => status' # "stopped"]_vars

====
